---------------------------- MODULE Spec2Model ----------------------------
(***************************************************************************)
(* Crystal symmetry detection and application engine of JDFTx              *)
(* (electronic/Symmetries.cpp): Symmetries::setup and the steps it runs.   *)
(*                                                                         *)
(* Number representation.                                                  *)
(*  - matrix3<int> / matrix3<> : <<row1, row2, row3>>, rows are 3-tuples;  *)
(*    the code's index k in 0..2 is k+1 here.                              *)
(*  - The lattice R has integer entries (lengths in bohr), so that R, the  *)
(*    metric and the squared norms are exact integers.                     *)
(*  - Atom positions and k-points are lattice coordinates in units of      *)
(*    1/PosDen, kept modulo PosDen only where the code compares them       *)
(*    with the periodic distance.                                          *)
(***************************************************************************)
EXTENDS Integers, Sequences, FiniteSets, TLC

Idx == 1..3

\* ------------------------------------------------------------------------
\* matrix3 / vector3 arithmetic (core/matrix3.h)
\* ------------------------------------------------------------------------
matrix3(d0, d1, d2) == << <<d0, 0, 0>>, <<0, d1, 0>>, <<0, 0, d2>> >>

identity == matrix3(1, 1, 1)

Diag(v) == matrix3(v[1], v[2], v[3])

\* Tuples are built explicitly so that every matrix is a fully evaluated value.
Tup3(g(_)) == <<g(1), g(2), g(3)>>

Mat3(g(_, _)) ==
  << <<g(1,1), g(1,2), g(1,3)>>, <<g(2,1), g(2,2), g(2,3)>>, <<g(3,1), g(3,2), g(3,3)>> >>

MatMul(A, B) ==
  LET e(i, j) == A[i][1]*B[1][j] + A[i][2]*B[2][j] + A[i][3]*B[3][j]
  IN  Mat3(e)

Transpose(A) ==
  LET e(i, j) == A[j][i]
  IN  Mat3(e)

MatSub(A, B) ==
  LET e(i, j) == A[i][j] - B[i][j]
  IN  Mat3(e)

MatVec(A, v) ==
  LET e(i) == A[i][1]*v[1] + A[i][2]*v[2] + A[i][3]*v[3]
  IN  Tup3(e)

VecAdd(a, b) ==
  LET e(i) == a[i] + b[i]
  IN  Tup3(e)

VecSub(a, b) ==
  LET e(i) == a[i] - b[i]
  IN  Tup3(e)

\* squared Frobenius norm: nrm2(m)^2
nrm2sq(A) ==
    A[1][1]*A[1][1] + A[1][2]*A[1][2] + A[1][3]*A[1][3]
  + A[2][1]*A[2][1] + A[2][2]*A[2][2] + A[2][3]*A[2][3]
  + A[3][1]*A[3][1] + A[3][2]*A[3][2] + A[3][3]*A[3][3]

\* C++ operator % on int (the result has the sign of the dividend)
CRem(a, b) == IF a >= 0 THEN a % b ELSE -((-a) % b)

Abs(a) == IF a < 0 THEN -a ELSE a

\* ------------------------------------------------------------------------
\* Tolerances (#define MIN_KPT_DISTANCE 1e-8, #define MIN_SYMM_TOL 1e-4),
\* kept as the reciprocal so that every comparison is an integer one.
\* ------------------------------------------------------------------------
InvSymmTol == 10000

InvKptDistance == 100000000

\* Variant that accepts every drop of the norm, however small
NormDropsByTol_anyDrop(a, b) == b - a >= 1

\* nrm2(P) < nrm2(Q) - MIN_SYMM_TOL, for a = nrm2(P)^2, b = nrm2(Q)^2 integers
\* below 2^30.  With d = b - a >= 1:
\*   sqrt(a) + tol < sqrt(b)  <=>  2*a <= 2*(InvSymmTol/2)^2 * d^2 - d,
\* and for d >= 7 the right side exceeds 2^31.
NormDropsByTol(a, b) ==
  LET d == b - a
      h == InvSymmTol \div 2
  IN  \/ d >= 7
      \/ d >= 1 /\ 2*a <= 2*h*h*d*d - d

\* nrm2(D) > MIN_SYMM_TOL * nrm2(Q), for e = nrm2(D)^2, b = nrm2(Q)^2 < 2^31:
\*   e > tol^2 * b  <=>  e * InvSymmTol^2 > b ; for e >= 22 the left side
\* exceeds 2^31.
NormExceedsRelTol(e, b) ==
  \/ e >= 22
  \/ e * (InvSymmTol * InvSymmTol) > b

\* nrm2(X) < MIN_SYMM_TOL for an integer matrix X: the norm of a nonzero
\* integer matrix is at least 1, so the test holds exactly for X = 0.
NormBelowTol(X) == \A i \in Idx : \A j \in Idx : X[i][j] = 0

\* ------------------------------------------------------------------------
\* Symmetries::latticeSymmetries
\* ------------------------------------------------------------------------
\* Variant of the loop body that multiplies invTransmission on the right
ReduceStep_invOnRight(st, n) ==
  LET k1 == (n \div 9) + 1
      k2 == ((k1 - 1 + 1) % 3) + 1
      k3 == ((k1 - 1 + 2) % 3) + 1
      i  == ((n \div 3) % 3) - 1
      j  == (n % 3) - 1
      de(r, c)    == IF r = c THEN 1
                     ELSE IF r = k2 /\ c = k1 THEN i
                     ELSE IF r = k3 /\ c = k1 THEN j ELSE 0
      dInve(r, c) == IF r = c THEN 1
                     ELSE IF r = k2 /\ c = k1 THEN -i
                     ELSE IF r = k3 /\ c = k1 THEN -j ELSE 0
      d    == Mat3(de)
      dInv == Mat3(dInve)
      Rproposed == MatMul(st.Rreduced, d)
  IN  IF NormDropsByTol(nrm2sq(Rproposed), nrm2sq(st.Rreduced))
      THEN [Rreduced        |-> Rproposed,
            transmission    |-> MatMul(st.transmission, d),
            invTransmission |-> MatMul(st.invTransmission, dInv),
            changed         |-> TRUE]
      ELSE st

\* One pass of the innermost loop body for loop counter n in 0..26, which
\* enumerates k1 = 0..2 (outer), i = -1..1, j = -1..1 (inner) in code order.
\* st = [Rreduced, transmission, invTransmission, changed]
ReduceStep(st, n) ==
  LET k1 == (n \div 9) + 1
      k2 == ((k1 - 1 + 1) % 3) + 1
      k3 == ((k1 - 1 + 2) % 3) + 1
      i  == ((n \div 3) % 3) - 1
      j  == (n % 3) - 1
      de(r, c)    == IF r = c THEN 1
                     ELSE IF r = k2 /\ c = k1 THEN i
                     ELSE IF r = k3 /\ c = k1 THEN j ELSE 0
      dInve(r, c) == IF r = c THEN 1
                     ELSE IF r = k2 /\ c = k1 THEN -i
                     ELSE IF r = k3 /\ c = k1 THEN -j ELSE 0
      d    == Mat3(de)
      dInv == Mat3(dInve)
      Rproposed == MatMul(st.Rreduced, d)
  IN  IF NormDropsByTol(nrm2sq(Rproposed), nrm2sq(st.Rreduced))
      THEN [Rreduced        |-> Rproposed,
            transmission    |-> MatMul(st.transmission, d),
            invTransmission |-> MatMul(dInv, st.invTransmission),
            changed         |-> TRUE]
      ELSE st

RECURSIVE ReduceSweep(_, _)
ReduceSweep(st, n) ==
  IF n = 27 THEN st
  ELSE LET s2 == ReduceStep(st, n)
       IN  \* (the test only makes s2 a computed value before the next pass)
           IF s2.changed THEN ReduceSweep(s2, n + 1) ELSE ReduceSweep(s2, n + 1)

\* while(true) { changed = false; sweep; if(!changed) break; }
RECURSIVE ReduceLoop(_)
ReduceLoop(st) ==
  LET s2 == ReduceSweep([st EXCEPT !.changed = FALSE], 0)
  IN  IF s2.changed THEN ReduceLoop(s2) ELSE s2

ReducedBasis(Rin) ==
  ReduceLoop([Rreduced |-> Rin, transmission |-> identity,
              invTransmission |-> identity, changed |-> FALSE])

\* The n-th candidate of the iLOOP nest, n in 0..19682: m(0,0) is the
\* outermost (slowest) loop variable and m(2,2) the innermost, each -1..1.
Pow3 == <<6561, 2187, 729, 243, 81, 27, 9, 3, 1>>

Candidate(n) ==
  LET e(i, j) == ((n \div Pow3[3*(i-1) + j]) % 3) - 1
  IN  Mat3(e)

\* (mutation) only the diagonal of the metric is compared
LeavesMetricInvariant_diagOnly(metric, m) ==
  LET X == MatSub(metric, MatMul(MatMul(Transpose(m), metric), m))
  IN  \A i \in Idx : X[i][i] = 0

\* if( nrm2(metric - (~m) * metric * m) < MIN_SYMM_TOL )
LeavesMetricInvariant(metric, m) ==
  NormBelowTol(MatSub(metric, MatMul(MatMul(Transpose(m), metric), m)))

\* for(matrix3<int>& m: symLattice) m = transmission * m * invTransmission;
ConjugateAll(T, symLat, Tinv) ==
  [k \in 1..Len(symLat) |-> MatMul(MatMul(T, symLat[k]), Tinv)]

\* the candidates of the iLOOP nest in loop order
AllCandidates == [n \in 1..19683 |-> Candidate(n - 1)]

\* iLOOP ... if(...) symLattice.push_back(m);
MetricSymmetries(metric) ==
  SelectSeq(AllCandidates, LAMBDA m : LeavesMetricInvariant(metric, m))

latticeSymmetries(Rin) ==
  LET red    == ReducedBasis(Rin)
      metric == MatMul(Transpose(red.Rreduced), red.Rreduced)
      all    == [n \in 1..19683 |-> Candidate(n - 1)]
      symLat == SelectSeq(all, LAMBDA m : LeavesMetricInvariant(metric, m))
  IN  IF NormExceedsRelTol(nrm2sq(MatSub(red.Rreduced, Rin)), nrm2sq(red.Rreduced))
      THEN ConjugateAll(red.transmission, symLat, red.invTransmission)
      ELSE symLat

\* ------------------------------------------------------------------------
\* Periodic distance (core/vector3.h: circDistanceSquared) on fixed-point
\* lattice coordinates
\* ------------------------------------------------------------------------
\* Positions, k-points and k-point weights are integers in units of 1/PosDen.
PosDen == 2000

zero3 == <<0, 0, 0>>

\* minimum-image separation of two coordinates, in units of 1/PosDen
CircSep(a, b) ==
  LET d == (a - b) % PosDen
  IN  IF d <= PosDen - d THEN d ELSE PosDen - d

\* Sum over the three directions of the squared minimum-image separation,
\* in units of (1/PosDen)^2.  Multiplied by (2*pi/PosDen)^2 it is the squared
\* chord |exp(2 pi i a) - exp(2 pi i b)|^2 of the code for the separations
\* that can pass a tolerance test (chord and arc agree to better than 1e-5
\* relative below 0.01).
circDistanceSquared(a, b) ==
    CircSep(a[1], b[1]) * CircSep(a[1], b[1])
  + CircSep(a[2], b[2]) * CircSep(a[2], b[2])
  + CircSep(a[3], b[3]) * CircSep(a[3], b[3])

\* D * (2*pi/PosDen)^2 < 1/invTol, with 4*pi^2*100 = 3947.84... rounded to
\* 3948; D above 1000 is far beyond either tolerance.
DistBelow(D, invTol) ==
  D <= 1000 /\ D * 3948 < (PosDen * PosDen * 100) \div invTol

\* circDistanceSquared(a, b) < MIN_SYMM_TOL
SymmClose(a, b) == DistBelow(circDistanceSquared(a, b), InvSymmTol)

\* circDistanceSquared(a, b) < MIN_KPT_DISTANCE
KptClose(a, b) == DistBelow(circDistanceSquared(a, b), InvKptDistance)

\* fabs(w1 - w2) < MIN_KPT_DISTANCE for weights in units of 1/PosDen
WeightClose(w1, w2) ==
  /\ Abs(w1 - w2) <= PosDen \div InvKptDistance
  /\ Abs(w1 - w2) * InvKptDistance < PosDen

\* ------------------------------------------------------------------------
\* Symmetries::basisReduce
\* ------------------------------------------------------------------------
\* Variant that compares the image with the first atom only
FoundImage_firstAtomOnly(atpos, mapped_pos1, n2) ==
  n2 <= Len(atpos) /\ SymmClose(mapped_pos1, atpos[1])

\* for(auto pos2: sp->atpos) if(circDistanceSquared(..) < MIN_SYMM_TOL)
\*   { foundImage = true; break; }
RECURSIVE FoundImage(_, _, _)
FoundImage(atpos, mapped_pos1, n2) ==
  IF n2 > Len(atpos) THEN FALSE
  ELSE IF SymmClose(mapped_pos1, atpos[n2]) THEN TRUE
  ELSE FoundImage(atpos, mapped_pos1, n2 + 1)

\* Variant that leaves the matrix out
MappedPos_noMatrix(m, offset, pos1) == VecAdd(offset, VecSub(pos1, offset))

\* mapped_pos1 = offset + m * (pos1-offset)
MappedPos(m, offset, pos1) == VecAdd(offset, MatVec(m, VecSub(pos1, offset)))

\* Variant that looks for the image of the first atom only
AtomsSymmetric_firstAtomOnly(m, offset, atpos, n1) ==
  Len(atpos) = 0 \/ FoundImage(atpos, MappedPos(m, offset, atpos[1]), 1)

\* for(auto pos1: sp->atpos) ... if(!foundImage) { symmetric = false; break; }
RECURSIVE AtomsSymmetric(_, _, _, _)
AtomsSymmetric(m, offset, atpos, n1) ==
  IF n1 > Len(atpos) THEN TRUE
  ELSE IF ~FoundImage(atpos, MappedPos(m, offset, atpos[n1]), 1) THEN FALSE
  ELSE AtomsSymmetric(m, offset, atpos, n1 + 1)

\* Variant that looks at one species only
SpeciesSymmetric_firstSpeciesOnly(m, offset, sps, s) ==
  s > Len(sps) \/ AtomsSymmetric(m, offset, sps[s].atpos, 1)

\* for(auto sp: e->iInfo.species) ... if(!symmetric) break;
RECURSIVE SpeciesSymmetric(_, _, _, _)
SpeciesSymmetric(m, offset, sps, s) ==
  IF s > Len(sps) THEN TRUE
  ELSE IF ~AtomsSymmetric(m, offset, sps[s].atpos, 1) THEN FALSE
  ELSE SpeciesSymmetric(m, offset, sps, s + 1)

\* Variant that always reduces about the origin
basisReduce_zeroOffset(symLat, offset, sps) ==
  SelectSeq(symLat, LAMBDA m : SpeciesSymmetric(m, zero3, sps, 1))

\* for(m: symLattice) { ...; if(symmetric) symBasis.push_back(m); }
basisReduce(symLat, offset, sps) ==
  SelectSeq(symLat, LAMBDA m : SpeciesSymmetric(m, offset, sps, 1))

\* ------------------------------------------------------------------------
\* Symmetries::sortSymmetries
\* ------------------------------------------------------------------------
\* for(unsigned i=1; i<sym.size(); i++) if(sym[i]==identity) swap(sym[0], sym[i]);
RECURSIVE sortFrom(_, _)
sortFrom(syms, i) ==
  IF i > Len(syms) THEN syms
  ELSE sortFrom(IF syms[i] = identity
                THEN [syms EXCEPT ![1] = syms[i], ![i] = syms[1]]
                ELSE syms, i + 1)

sortSymmetries(syms) == sortFrom(syms, 2)

\* Variant of assign that fills an empty vector only
assign_ifEmpty(syms, n, m) == IF Len(syms) = 0 THEN [k \in 1..n |-> m] ELSE syms

\* std::vector::assign(n, m): the old content is replaced by n copies of m
assign(syms, n, m) == [k \in 1..n |-> m]

\* ------------------------------------------------------------------------
\* Symmetries::checkSymmetries (manual mode): TRUE iff it returns without die
\* ------------------------------------------------------------------------
RECURSIVE checkSymmetriesFrom(_, _, _)
checkSymmetriesFrom(syms, sps, k) ==
  IF k > Len(syms) THEN TRUE
  ELSE IF ~SpeciesSymmetric(syms[k], zero3, sps, 1) THEN FALSE
  ELSE checkSymmetriesFrom(syms, sps, k + 1)

\* Variant that validates the first matrix only
checkSymmetries_firstMatrixOnly(syms, sps) == SpeciesSymmetric(syms[1], zero3, sps, 1)

checkSymmetries(syms, sps) == checkSymmetriesFrom(syms, sps, 1)

\* ------------------------------------------------------------------------
\* Symmetries::checkFFTbox
\* ------------------------------------------------------------------------
\* Variant without the product by Diag(S)
MeshNumerator_unscaled(Sv, m) == m

\* symMesh[iRot] = Diag(S) * sym[iRot], before the division by S[j]
MeshNumerator(Sv, m) == MatMul(Diag(Sv), m)

\* Variant that takes the remainder by S[i]
Commensurate_rowSize(Sv, m) ==
  \A i \in Idx : \A j \in Idx : CRem(MeshNumerator(Sv, m)[i][j], Sv[i]) = 0

\* if(symMesh[iRot](i,j) % S[j] == 0) for every i, j
Commensurate(Sv, m) ==
  \A i \in Idx : \A j \in Idx : CRem(MeshNumerator(Sv, m)[i][j], Sv[j]) = 0

\* Variant that divides by S[i]
MeshMatrix_rowSize(Sv, m) ==
  LET num == MeshNumerator(Sv, m)
      e(i, j) == num[i][j] \div Sv[i]
  IN  Mat3(e)

\* symMesh[iRot](i,j) /= S[j]  (exact, the remainder is zero)
MeshMatrix(Sv, m) ==
  LET num == MeshNumerator(Sv, m)
      e(i, j) == num[i][j] \div Sv[j]
  IN  Mat3(e)

\* Result: ok = FALSE when the loop over iRot meets die (the process exits and
\* the partly filled symMesh is never read), else the mesh matrices.
checkFFTbox(Sv, syms) ==
  IF \A iRot \in 1..Len(syms) : Commensurate(Sv, syms[iRot])
  THEN [ok |-> TRUE, symMesh |-> [iRot \in 1..Len(syms) |-> MeshMatrix(Sv, syms[iRot])]]
  ELSE [ok |-> FALSE, symMesh |-> <<>>]

\* ------------------------------------------------------------------------
\* Symmetries::checkKmesh
\* ------------------------------------------------------------------------
\* for(q2) if(circDistanceSquared((~m)*q1.k,q2.k)<MIN_KPT_DISTANCE
\*            && fabs(q1.weight-q2.weight)<MIN_KPT_DISTANCE) {foundImage=true; break;}
\* Variant without the comparison of the weights
FoundKImage_anyWeight(qs, m, q1, n2) ==
  \E n \in n2..Len(qs) : KptClose(MatVec(Transpose(m), q1.k), qs[n].k)

RECURSIVE FoundKImage(_, _, _, _)
FoundKImage(qs, m, q1, n2) ==
  IF n2 > Len(qs) THEN FALSE
  ELSE IF /\ KptClose(MatVec(Transpose(m), q1.k), qs[n2].k)
          /\ WeightClose(q1.weight, qs[n2].weight) THEN TRUE
  ELSE FoundKImage(qs, m, q1, n2 + 1)

RECURSIVE KmeshSymmetric(_, _, _)
KmeshSymmetric(qs, m, n1) ==
  IF n1 > Len(qs) THEN TRUE
  ELSE IF ~FoundKImage(qs, m, qs[n1], 1) THEN FALSE
  ELSE KmeshSymmetric(qs, m, n1 + 1)

\* for(m: sym) { ...; if(symmetric) symKmesh.push_back(m); }
symKmeshOf(qs, syms) == SelectSeq(syms, LAMBDA m : KmeshSymmetric(qs, m, 1))

\* if(symKmesh.size() < sym.size()) -> WARNING
checkKmeshWarns(qs, syms) == Len(symKmeshOf(qs, syms)) < Len(syms)

\* ------------------------------------------------------------------------
\* Symmetries::initAtomMaps
\* ------------------------------------------------------------------------
\* The at2 loop for one (at1, iRot): atom indices are 0-based as in the code,
\* cur is the entry's value so far (0 after resize), every match overwrites it.
\* Result: [die |-> a mismatching move scale was met, at2 |-> entry value]
\* Variant that keeps the first match instead of the last
MapEntryFrom_firstMatch(sp, at1, mapped_pos1, at2, cur) ==
  LET W == {b \in at2..(Len(sp.atpos) - 1) : SymmClose(mapped_pos1, sp.atpos[b + 1])}
  IN  IF \E b \in W : sp.moveScale[at1 + 1] # sp.moveScale[b + 1]
      THEN [die |-> TRUE, at2 |-> cur]
      ELSE IF W = {} THEN [die |-> FALSE, at2 |-> cur]
      ELSE [die |-> FALSE, at2 |-> CHOOSE b \in W : \A c \in W : b <= c]

\* Variant without the comparison of the move scale factors
MapEntryFrom_noScaleCheck(sp, at1, mapped_pos1, at2, cur) ==
  LET W == {b \in at2..(Len(sp.atpos) - 1) : SymmClose(mapped_pos1, sp.atpos[b + 1])}
  IN  IF W = {} THEN [die |-> FALSE, at2 |-> cur]
      ELSE [die |-> FALSE, at2 |-> CHOOSE b \in W : \A c \in W : b >= c]

RECURSIVE MapEntryFrom(_, _, _, _, _)
MapEntryFrom(sp, at1, mapped_pos1, at2, cur) ==
  IF at2 >= Len(sp.atpos) THEN [die |-> FALSE, at2 |-> cur]
  ELSE IF SymmClose(mapped_pos1, sp.atpos[at2 + 1])
       THEN IF sp.moveScale[at1 + 1] # sp.moveScale[at2 + 1]
            THEN [die |-> TRUE, at2 |-> at2]
            ELSE MapEntryFrom(sp, at1, mapped_pos1, at2 + 1, at2)
       ELSE MapEntryFrom(sp, at1, mapped_pos1, at2 + 1, cur)

\* Variant that ends the run when no atom is found at the image
MapEntry_dieIfMissing(sp, at1, m) ==
  LET mapped_pos1 == MatVec(m, sp.atpos[at1 + 1])
  IN  IF \A b \in 1..Len(sp.atpos) : ~SymmClose(mapped_pos1, sp.atpos[b])
      THEN [die |-> TRUE, at2 |-> 0]
      ELSE MapEntryFrom(sp, at1, mapped_pos1, 0, 0)

MapEntry(sp, at1, m) ==
  MapEntryFrom(sp, at1, MatVec(m, sp.atpos[at1 + 1]), 0, 0)

\* atomMap[sp][at1] : one entry per symmetry; die when some entry met die
\* (the process exits and the partly filled map is never read)
MapRow(sp, at1, syms) ==
  IF \E iRot \in 1..Len(syms) : MapEntry(sp, at1, syms[iRot]).die
  THEN [die |-> TRUE, row |-> <<>>]
  ELSE [die |-> FALSE, row |-> [iRot \in 1..Len(syms) |-> MapEntry(sp, at1, syms[iRot]).at2]]

RECURSIVE MapSpeciesFrom(_, _, _, _)
MapSpeciesFrom(sp, syms, at1, rows) ==
  IF at1 >= Len(sp.atpos) THEN [die |-> FALSE, rows |-> rows]
  ELSE LET r == MapRow(sp, at1, syms)
       IN  IF r.die THEN [die |-> TRUE, rows |-> rows]
           ELSE MapSpeciesFrom(sp, syms, at1 + 1, Append(rows, r.row))

RECURSIVE initAtomMapsFrom(_, _, _, _)
initAtomMapsFrom(sps, syms, s, maps) ==
  IF s > Len(sps) THEN [die |-> FALSE, atomMap |-> maps]
  ELSE LET r == MapSpeciesFrom(sps[s], syms, 0, <<>>)
       IN  IF r.die THEN [die |-> TRUE, atomMap |-> maps]
           ELSE initAtomMapsFrom(sps, syms, s + 1, Append(maps, r.rows))

\* Result for sym.size() != 1
initAtomMaps(sps, syms) == initAtomMapsFrom(sps, syms, 1, <<>>)

\* ------------------------------------------------------------------------
\* Symmetries::initSymmIndex (GridInfo::fullRindex / fullGindex)
\* ------------------------------------------------------------------------
fullRindex(Sv, r) == r[3] + Sv[3] * (r[2] + Sv[2] * r[1])

\* fullGindex wraps negative indices into the grid before fullRindex
fullGindex(Sv, iG) ==
  LET w(i) == IF iG[i] < 0 THEN iG[i] + Sv[i] ELSE iG[i]
  IN  fullRindex(Sv, Tup3(w))

\* The grid point with flat index n (r[0] is the slowest loop variable)
GridPoint(Sv, n) == << n \div (Sv[2] * Sv[3]), (n \div Sv[3]) % Sv[2], n % Sv[3] >>

\* rNew = m * r; rNew[i] = rNew[i] % S[i]; index2 = fullGindex(rNew)
ImageIndex(Sv, m, r) ==
  LET rNew == MatVec(m, r)
      p(i) == CRem(rNew[i], Sv[i])
  IN  fullGindex(Sv, Tup3(p))

\* Variant without done[index2] = true
ClassOf_notDone(Sv, mesh, r, st) ==
  [vec  |-> st.vec \o [k \in 1..Len(mesh) |-> ImageIndex(Sv, mesh[k], r)],
   done |-> st.done]

\* inner loop over symMesh for one unhandled point r:
\* symmIndexVec.push_back(index2); done[index2] = true;
ClassOf(Sv, mesh, r, st) ==
  LET images == [k \in 1..Len(mesh) |-> ImageIndex(Sv, mesh[k], r)]
  IN  [vec  |-> st.vec \o images,
       done |-> st.done \cup {images[k] : k \in 1..Len(mesh)}]

\* the three nested loops over r, in increasing fullRindex order
RECURSIVE initSymmIndexFrom(_, _, _, _)
initSymmIndexFrom(Sv, mesh, n, st) ==
  IF n >= Sv[1] * Sv[2] * Sv[3] THEN st.vec
  ELSE initSymmIndexFrom(Sv, mesh, n + 1,
         IF n \in st.done THEN st
         ELSE ClassOf(Sv, mesh, GridPoint(Sv, n), st))

\* Result for sym.size() != 1: the contents of symmIndex
initSymmIndex(Sv, mesh) == initSymmIndexFrom(Sv, mesh, 0, [vec |-> <<>>, done |-> {}])

\* ------------------------------------------------------------------------
\* Field values: double is modelled by exact rationals <<numerator,
\* denominator>> in lowest terms with a positive denominator (rounding of the
\* floating-point operations is not part of the model)
\* ------------------------------------------------------------------------
RECURSIVE GCD(_, _)
GCD(a, b) == IF b = 0 THEN a ELSE GCD(b, a % b)

Rat(n, d) ==
  LET g == GCD(Abs(n), d)
  IN  <<n \div g, d \div g>>

RatOfInt(n) == <<n, 1>>

RatAdd(a, b) == Rat(a[1] * b[2] + b[1] * a[2], a[2] * b[2])

\* a * (1.0 / k)  and  a / k
RatDivInt(a, k) == Rat(a[1], a[2] * k)

\* k * a
RatMulInt(k, a) == Rat(k * a[1], a[2])

\* ------------------------------------------------------------------------
\* symmetrize_sub and Symmetries::symmetrize(DataRptr&)
\* ------------------------------------------------------------------------
\* for(int j=0; j<nRot; j++) xSum += x[symmIndex[nRot*i+j]];  (from entry j on)
RECURSIVE ClassSumFrom(_, _, _, _, _, _)
ClassSumFrom(xv, index, nRot, i, j, xSum) ==
  IF j >= nRot THEN xSum
  ELSE LET next == RatAdd(xSum, xv[index[nRot * i + j + 1] + 1])
       IN  \* (the test only makes next a computed value before the next pass)
           IF next[2] > 0 THEN ClassSumFrom(xv, index, nRot, i, j + 1, next) ELSE next

\* Variant without xSum *= nrotInv
ClassMean_sumOnly(xv, index, nRot, i) ==
  ClassSumFrom(xv, index, nRot, i, 0, RatOfInt(0))

\* double xSum=0.0; for(j) xSum += ...; xSum *= nrotInv;
ClassMean(xv, index, nRot, i) ==
  RatDivInt(ClassSumFrom(xv, index, nRot, i, 0, RatOfInt(0)), nRot)

\* Variant that writes the first entry of the class only
ClassWrite_firstOnly(xv, index, nRot, i, xSum) ==
  [p \in 1..Len(xv) |-> IF index[nRot * i + 1] = p - 1 THEN xSum ELSE xv[p]]

\* Variant that writes the mean and then once more divides it by nRot
ClassWrite_dividedTwice(xv, index, nRot, i, xSum) ==
  [p \in 1..Len(xv) |->
     IF \E j \in 0..(nRot - 1) : index[nRot * i + j + 1] = p - 1
     THEN RatDivInt(xSum, nRot) ELSE xv[p]]

\* for(int j=0; j<nRot; j++) x[symmIndex[nRot*i+j]] = xSum;
ClassWrite(xv, index, nRot, i, xSum) ==
  [p \in 1..Len(xv) |->
     IF \E j \in 0..(nRot - 1) : index[nRot * i + j + 1] = p - 1 THEN xSum ELSE xv[p]]

\* symmetrize_sub(iStart, iStop, nRot, x, symmIndex) run by one thread alone
RECURSIVE symmetrize_sub(_, _, _, _, _)
symmetrize_sub(iStart, iStop, nRot, xv, index) ==
  IF iStart >= iStop THEN xv
  ELSE symmetrize_sub(iStart + 1, iStop, nRot,
         ClassWrite(xv, index, nRot, iStart, ClassMean(xv, index, nRot, iStart)), index)

\* int nSymmClasses = nSymmIndex / sym.size()
nSymmClassesOf(index, nRot) == Len(index) \div nRot

\* threadLaunch: thread t of nThr (t = 1..nThr) gets the jobs [start, stop)
ThreadStart(t, nThr, nJobs) == ((t - 1) * nJobs) \div nThr

ThreadStop(t, nThr, nJobs) == (t * nJobs) \div nThr

\* ------------------------------------------------------------------------
\* Symmetries::symmetrize(IonicGradient&)
\* ------------------------------------------------------------------------
RatVecAdd(u, v) == <<RatAdd(u[1], v[1]), RatAdd(u[2], v[2]), RatAdd(u[3], v[3])>>

\* m * v for an integer matrix m and a vector3<> v
RatMatVec(m, v) ==
  LET e(i) == RatAdd(RatAdd(RatMulInt(m[i][1], v[1]), RatMulInt(m[i][2], v[2])),
                     RatMulInt(m[i][3], v[3]))
  IN  Tup3(e)

RatVecDivInt(v, k) == <<RatDivInt(v[1], k), RatDivInt(v[2], k), RatDivInt(v[3], k)>>

ratZero3 == <<RatOfInt(0), RatOfInt(0), RatOfInt(0)>>

\* Variant that applies the matrix itself instead of its transpose
ForceTerm_noTranspose(m, v) == RatMatVec(m, v)

\* (~sym[iRot]) * f[sp][...]
ForceTerm(m, v) == RatMatVec(Transpose(m), v)

\* for(iRot) tempForces[atom] += (~sym[iRot]) * f[sp][atomMap[sp][atom][iRot]];
RECURSIVE TempForceFrom(_, _, _, _, _)
TempForceFrom(fsp, syms, maprow, iRot, temp) ==
  IF iRot > Len(syms) THEN temp
  ELSE LET next == RatVecAdd(temp, ForceTerm(syms[iRot], fsp[maprow[iRot] + 1]))
       IN  IF next[1][2] > 0 THEN TempForceFrom(fsp, syms, maprow, iRot + 1, next) ELSE next

\* one species: tempForces from the forces at entry, then f[sp][atom] = tempForces[atom] / sym.size()
symmetrizeSpecies(fsp, syms, maps) ==
  [atom \in 1..Len(fsp) |->
     RatVecDivInt(TempForceFrom(fsp, syms, maps[atom], 1, ratZero3), Len(syms))]

\* Variant that clears the forces when there is a single matrix
symmetrizeForces_zeroWhenTrivial(fv, syms, amap) ==
  IF Len(syms) <= 1 THEN [sp \in 1..Len(fv) |-> [atom \in 1..Len(fv[sp]) |-> ratZero3]]
  ELSE [sp \in 1..Len(fv) |-> symmetrizeSpecies(fv[sp], syms, amap[sp])]

\* if(sym.size() <= 1) return; for(sp) ...
symmetrizeForces(fv, syms, amap) ==
  IF Len(syms) <= 1 THEN fv
  ELSE [sp \in 1..Len(fv) |-> symmetrizeSpecies(fv[sp], syms, amap[sp])]

\* ------------------------------------------------------------------------
\* Symmetry-center candidates of Symmetries::calcSymmetries
\* ------------------------------------------------------------------------
Half(v) ==
  LET e(i) == v[i] \div 2
  IN  Tup3(e)

\* for n2 < n1: push 0.5*(atpos[n1] + atpos[n2])
RECURSIVE PairMidpoints(_, _, _, _)
PairMidpoints(atpos, n1, n2, acc) ==
  IF n2 >= n1 THEN acc
  ELSE PairMidpoints(atpos, n1, n2 + 1,
                     Append(acc, Half(VecAdd(atpos[n1], atpos[n2]))))

\* Variant that proposes the atom positions only
AtomCandidates_positionsOnly(atpos, n1, acc) ==
  acc \o [n \in 1..(Len(atpos) - n1 + 1) |-> atpos[n1 + n - 1]]

\* for(n1) { push atpos[n1]; for(n2 < n1) push the midpoint }
RECURSIVE AtomCandidates(_, _, _)
AtomCandidates(atpos, n1, acc) ==
  IF n1 > Len(atpos) THEN acc
  ELSE AtomCandidates(atpos, n1 + 1,
                      PairMidpoints(atpos, n1, 1, Append(acc, atpos[n1])))

RECURSIVE CandidatesFrom(_, _, _)
CandidatesFrom(sps, s, acc) ==
  IF s > Len(sps) THEN acc
  ELSE CandidatesFrom(sps, s + 1, AtomCandidates(sps[s].atpos, 1, acc))

rCenterCandidatesOf(sps) == CandidatesFrom(sps, 1, <<>>)

\* for(vector3<>& pos: sp->atpos) pos -= rCenter;
RECURSIVE ShiftAll(_, _, _, _)
ShiftAll(atpos, c, n, acc) ==
  IF n > Len(atpos) THEN acc
  ELSE ShiftAll(atpos, c, n + 1, Append(acc, VecSub(atpos[n], c)))

RECURSIVE TranslateFrom(_, _, _, _)
TranslateFrom(sps, c, s, acc) ==
  IF s > Len(sps) THEN acc
  ELSE TranslateFrom(sps, c, s + 1,
         Append(acc, [sps[s] EXCEPT !.atpos = ShiftAll(sps[s].atpos, c, 1, <<>>)]))

TranslateAtoms(sps, c) == TranslateFrom(sps, c, 1, <<>>)

\* ------------------------------------------------------------------------
\* Inputs read from Everything (gInfo, iInfo, eInfo) and the symmetry command
\* ------------------------------------------------------------------------
\* Lattice vectors are the columns of R.
Rcubic == matrix3(4, 4, 4)

\* cubic lattice given in a skewed basis a3 = (2,0,2): needs one reduction step
Rskew == << <<2, 0, 2>>, <<0, 2, 0>>, <<0, 0, 2>> >>

\* skewed square cell with one very long axis: the reduction step is taken
\* (norm drops by 1.4e-4) but nrm2(Rreduced-R) = 3 < 1e-4 * nrm2(Rreduced) = 3.2
Rlong == << <<3, 0, 3>>, <<0, 32000, 0>>, <<0, 0, 3>> >>

LatticeSeq == <<Rcubic, Rskew, Rlong>>

Lattices == {LatticeSeq[i] : i \in 1..Len(LatticeSeq)}

GridSizes == {<<2, 2, 2>>, <<2, 3, 2>>, <<4, 2, 2>>}

Species(atpos, moveScale) == [atpos |-> atpos, moveScale |-> moveScale]

AtomConfigs ==
  { << Species(<< <<0, 0, 0>> >>, <<1>>) >>,
    << Species(<< <<200, 0, 0>> >>, <<1>>) >>,
    << Species(<< <<0, 0, 0>>, <<1000, 1000, 1000>> >>, <<1, 1>>) >>,
    << Species(<< <<500, 0, 0>>, <<1500, 0, 0>> >>, <<1, 1>>) >>,
    << Species(<< <<500, 0, 0>>, <<1500, 0, 0>> >>, <<1, 0>>) >>,
    << Species(<< <<0, 0, 0>>, <<2, 0, 0>> >>, <<1, 1>>) >>,
    << Species(<< <<0, 0, 0>>, <<2, 0, 0>> >>, <<1, 0>>) >>,
    << Species(<< <<0, 0, 0>> >>, <<1>>), Species(<<>>, <<>>) >>,
    << Species(<< <<0, 0, 0>> >>, <<1>>), Species(<< <<1000, 1000, 1000>> >>, <<0>>) >>,
    << Species(<< <<200, 0, 0>> >>, <<1>>), Species(<< <<200, 1000, 0>> >>, <<1>>) >> }

QuantumNumber(k, weight) == [k |-> k, weight |-> weight]

KMeshes ==
  { << QuantumNumber(<<0, 0, 0>>, 2000) >>,
    << QuantumNumber(<<1000, 0, 0>>, 2000) >>,
    << QuantumNumber(<<500, 0, 0>>, 500), QuantumNumber(<<1500, 0, 0>>, 1500) >> }

inversion == matrix3(-1, -1, -1)

mirrorX == matrix3(-1, 1, 1)

shearXY == << <<1, 1, 0>>, <<0, -1, 0>>, <<0, 0, 1>> >>

\* matrices given with the symmetry-matrix command
ManualLists ==
  { <<>>,
    <<identity>>,
    <<inversion>>,
    <<mirrorX, identity>>,
    <<inversion, mirrorX>>,
    <<shearXY, identity>> }

\* symmetry lists handed to initAtomMaps when it is exercised on its own
GivenMatrices == {identity, inversion, mirrorX, shearXY}

GivenLists ==
  {<<m>> : m \in GivenMatrices} \cup {<<m1, m2>> : m1 \in GivenMatrices, m2 \in GivenMatrices}

\* latticeSymmetries() of every lattice of the model, computed once
symLatticeTable ==
  <<latticeSymmetries(LatticeSeq[1]), latticeSymmetries(LatticeSeq[2]),
    latticeSymmetries(LatticeSeq[3])>>

symLatticeOf(L) == symLatticeTable[CHOOSE i \in 1..Len(LatticeSeq) : LatticeSeq[i] = L]

\* ------------------------------------------------------------------------
\* State
\* ------------------------------------------------------------------------
VARIABLES
  mode,              \* SymmetriesAutomatic / SymmetriesManual / SymmetriesNone
  shouldMoveAtoms,   \* <moveAtoms> of command symmetry
  R,                 \* e->gInfo.R
  S,                 \* e->gInfo.S
  species,           \* e->iInfo.species : atpos and moveScale per species
  qnums,             \* e->eInfo.qnums
  sym,               \* symmetry matrices in lattice coordinates
  symMesh,           \* symmetry matrices in mesh coordinates
  atomMap,           \* atomMap[sp][at1][iRot], 0-based atom indices
  symmIndex,         \* equivalence classes of grid points (nSymmIndex = Len)
  symLattice,        \* calcSymmetries: symmetries of the bravais lattice
  rCenter,           \* calcSymmetries: current symmetry center
  rCenterCandidates, \* calcSymmetries: candidate centers
  iCand,             \* calcSymmetries: next candidate to try
  origSymSize,       \* calcSymmetries: sym.size() before the center search
  kmeshWarning,      \* checkKmesh printed its WARNING
  pc,                \* position inside setup
  fatal,             \* which die() ended the run, "" if none
  x,                 \* scalar field handed to symmetrize(DataRptr&), <<>> if none
  xPre,              \* x at the entry of the latest symmetrize(DataRptr&)
  f,                 \* forces handed to symmetrize(IonicGradient&), <<>> if none
  fPre,              \* f at the entry of the latest symmetrize(IonicGradient&)
  nCalls,            \* calls of symmetrize(DataRptr&) that have returned
  nForceCalls,       \* calls of symmetrize(IonicGradient&) that have returned
  spc,               \* "idle", or "running" while the threads of symmetrize run
  tnext,             \* per thread: i of symmetrize_sub
  tstop,             \* per thread: iStop of symmetrize_sub
  tsum,              \* per thread: xSum once computed, NoSum before
  Rreduced,          \* latticeSymmetries: working basis of the reduction loop
  transmission,      \* latticeSymmetries: cumulative transformation
  invTransmission,   \* latticeSymmetries: its inverse
  changed,           \* latticeSymmetries: a step was accepted in this sweep
  nTry,              \* latticeSymmetries: next (k1,i,j) of the sweep, 0..27
  lpc,               \* position inside latticeSymmetries, "idle" outside
  firstRun,          \* what an earlier run of setup was given and returned
  kq                 \* latest kpointsEquivalent query and its result

vars == <<mode, shouldMoveAtoms, R, S, species, qnums, sym, symMesh, atomMap,
          symmIndex, symLattice, rCenter, rCenterCandidates, iCand,
          origSymSize, kmeshWarning, pc, fatal,
          x, xPre, f, fPre, nCalls, nForceCalls, spc, tnext, tstop, tsum,
          Rreduced, transmission, invTransmission, changed, nTry, lpc,
          firstRun, kq>>

latticeVars == <<Rreduced, transmission, invTransmission, changed, nTry, lpc>>

auxVars == <<latticeVars, firstRun, kq>>

symmVars == <<x, xPre, f, fPre, nCalls, nForceCalls, spc, tnext, tstop, tsum>>

setupVars == <<mode, shouldMoveAtoms, R, S, species, qnums, sym, symMesh, atomMap,
               symmIndex, symLattice, rCenter, rCenterCandidates, iCand,
               origSymSize, kmeshWarning, pc, fatal>>

\* no field has been handed to symmetrize yet
NoSymmetrizeYet ==
  /\ x = <<>> /\ xPre = <<>> /\ f = <<>> /\ fPre = <<>>
  /\ nCalls = 0 /\ nForceCalls = 0 /\ spc = "idle"
  /\ tnext = <<>> /\ tstop = <<>> /\ tsum = <<>>

\* latticeSymmetries is not running
NoReductionYet ==
  /\ Rreduced = identity /\ transmission = identity /\ invTransmission = identity
  /\ changed = FALSE /\ nTry = 0 /\ lpc = "idle"

\* no earlier run, no kpointsEquivalent query
NoAuxYet == NoReductionYet /\ firstRun = <<>> /\ kq = <<>>

inputs == <<mode, shouldMoveAtoms, R, S, qnums>>

calcLocals == <<symLattice, rCenter, rCenterCandidates, iCand, origSymSize>>

\* State after construction and command parsing, at the entry of setup
Init ==
  /\ mode \in {"Automatic", "Manual", "None"}
  /\ shouldMoveAtoms \in (IF mode = "Automatic" THEN BOOLEAN ELSE {FALSE})
  /\ R \in Lattices
  /\ S \in GridSizes
  /\ species \in AtomConfigs
  /\ qnums \in KMeshes
  /\ sym \in (IF mode = "Manual" THEN ManualLists
              ELSE IF mode = "None" THEN {<<>>, <<mirrorX, identity>>}
              ELSE {<<>>})
  /\ symMesh = <<>>
  /\ atomMap = <<>>
  /\ symmIndex = <<>>
  /\ symLattice = <<>>
  /\ rCenter = zero3
  /\ rCenterCandidates = <<>>
  /\ iCand = 1
  /\ origSymSize = 0
  /\ kmeshWarning = FALSE
  /\ pc = "setup"
  /\ fatal = ""
  /\ NoSymmetrizeYet
  /\ NoAuxYet

\* Variant that records the message and goes on with the next step
die_andGoOn(msg) == pc' = "checkKmesh" /\ fatal' = msg

die(msg) == pc' = "dead" /\ fatal' = msg

\* ------------------------------------------------------------------------
\* Symmetries::setup, case SymmetriesAutomatic: calcSymmetries()
\* ------------------------------------------------------------------------
\* symLattice = latticeSymmetries()
CalcLattice ==
  /\ UNCHANGED <<symmVars, auxVars>>
  /\ pc = "setup" /\ mode = "Automatic"
  /\ symLattice' = symLatticeOf(R)
  /\ pc' = "basisReduce"
  /\ UNCHANGED <<inputs, species, sym, symMesh, atomMap, symmIndex, rCenter,
                 rCenterCandidates, iCand, origSymSize, kmeshWarning, fatal>>

\* vector3<> rCenter; sym = basisReduce(symLattice, rCenter)
CalcBasis ==
  /\ UNCHANGED <<symmVars, auxVars>>
  /\ pc = "basisReduce"
  /\ rCenter' = zero3
  /\ sym' = basisReduce(symLattice, zero3, species)
  /\ pc' = "sortSymmetries"
  /\ UNCHANGED <<inputs, species, symMesh, atomMap, symmIndex, symLattice,
                 rCenterCandidates, iCand, origSymSize, kmeshWarning, fatal>>

\* sortSymmetries(); if(shouldMoveAtoms) { collect candidates; origSymSize = sym.size() }
CalcSort ==
  /\ UNCHANGED <<symmVars, auxVars>>
  /\ pc = "sortSymmetries"
  /\ sym' = sortSymmetries(sym)
  /\ IF shouldMoveAtoms
     THEN /\ rCenterCandidates' = rCenterCandidatesOf(species)
          /\ origSymSize' = Len(sym)
          /\ iCand' = 1
          /\ pc' = "centerSearch"
     ELSE /\ pc' = "checkFFTbox"
          /\ UNCHANGED <<rCenterCandidates, origSymSize, iCand>>
  /\ UNCHANGED <<inputs, species, symMesh, atomMap, symmIndex, symLattice,
                 rCenter, kmeshWarning, fatal>>

\* one iteration of for(vector3<> rProposed: rCenterCandidates)
CalcTryCenter ==
  /\ UNCHANGED <<symmVars, auxVars>>
  /\ pc = "centerSearch" /\ iCand <= Len(rCenterCandidates)
  /\ LET rProposed == rCenterCandidates[iCand]
         symTemp   == basisReduce(symLattice, rProposed, species)
     IN  IF Len(symTemp) > Len(sym)
         THEN rCenter' = rProposed /\ sym' = symTemp
         ELSE UNCHANGED <<rCenter, sym>>
  /\ iCand' = iCand + 1
  /\ UNCHANGED <<inputs, species, symMesh, atomMap, symmIndex, symLattice,
                 rCenterCandidates, origSymSize, kmeshWarning, pc, fatal>>

\* if(sym.size()>origSymSize) { translate atoms; print; die } ; end of calcSymmetries
CalcCenterEnd ==
  /\ UNCHANGED <<symmVars, auxVars>>
  /\ pc = "centerSearch" /\ iCand > Len(rCenterCandidates)
  /\ IF Len(sym) > origSymSize
     THEN /\ species' = TranslateAtoms(species, rCenter)
          /\ die("betterCenter")
     ELSE /\ pc' = "checkFFTbox"
          /\ UNCHANGED <<species, fatal>>
  /\ UNCHANGED <<inputs, sym, symMesh, atomMap, symmIndex, calcLocals, kmeshWarning>>

\* ------------------------------------------------------------------------
\* Symmetries::setup, case SymmetriesManual and default
\* ------------------------------------------------------------------------
SetupManual ==
  /\ UNCHANGED <<symmVars, auxVars>>
  /\ pc = "setup" /\ mode = "Manual"
  /\ IF Len(sym) = 0
     THEN die("noManualMatrices") /\ UNCHANGED sym
     ELSE /\ sym' = sortSymmetries(sym)
          /\ IF checkSymmetries(sortSymmetries(sym), species)
             THEN pc' = "checkFFTbox" /\ UNCHANGED fatal
             ELSE die("symmetriesDisagree")
  /\ UNCHANGED <<inputs, species, symMesh, atomMap, symmIndex, calcLocals, kmeshWarning>>

\* sym.assign(1, matrix3<int>(1,1,1))
SetupNone ==
  /\ UNCHANGED <<symmVars, auxVars>>
  /\ pc = "setup" /\ mode = "None"
  /\ sym' = assign(sym, 1, matrix3(1, 1, 1))
  /\ pc' = "checkFFTbox"
  /\ UNCHANGED <<inputs, species, symMesh, atomMap, symmIndex, calcLocals,
                 kmeshWarning, fatal>>

\* ------------------------------------------------------------------------
\* The four steps that end Symmetries::setup
\* ------------------------------------------------------------------------
Step_checkFFTbox ==
  /\ UNCHANGED <<symmVars, auxVars>>
  /\ pc = "checkFFTbox"
  /\ LET res == checkFFTbox(S, sym)
     IN  IF res.ok
         THEN symMesh' = res.symMesh /\ pc' = "checkKmesh" /\ UNCHANGED fatal
         ELSE UNCHANGED symMesh /\ die("fftBox")
  /\ UNCHANGED <<inputs, species, sym, atomMap, symmIndex, calcLocals, kmeshWarning>>

Step_checkKmesh ==
  /\ UNCHANGED <<symmVars, auxVars>>
  /\ pc = "checkKmesh"
  /\ kmeshWarning' = checkKmeshWarns(qnums, sym)
  /\ pc' = "initAtomMaps"
  /\ UNCHANGED <<inputs, species, sym, symMesh, atomMap, symmIndex, calcLocals, fatal>>

Step_initAtomMaps ==
  /\ UNCHANGED <<symmVars, auxVars>>
  /\ pc = "initAtomMaps"
  /\ IF Len(sym) = 1
     THEN pc' = "initSymmIndex" /\ UNCHANGED <<atomMap, fatal>>
     ELSE LET res == initAtomMaps(species, sym)
          IN  IF res.die
              THEN UNCHANGED atomMap /\ die("moveScale")
              ELSE atomMap' = res.atomMap /\ pc' = "initSymmIndex" /\ UNCHANGED fatal
  /\ UNCHANGED <<inputs, species, sym, symMesh, symmIndex, calcLocals, kmeshWarning>>

Step_initSymmIndex ==
  /\ UNCHANGED <<symmVars, auxVars>>
  /\ pc = "initSymmIndex"
  /\ symmIndex' = IF Len(sym) = 1 THEN symmIndex ELSE initSymmIndex(S, symMesh)
  /\ pc' = "done"
  /\ UNCHANGED <<inputs, species, sym, symMesh, atomMap, calcLocals, kmeshWarning, fatal>>

Next ==
  \/ CalcLattice
  \/ CalcBasis
  \/ CalcSort
  \/ CalcTryCenter
  \/ CalcCenterEnd
  \/ SetupManual
  \/ SetupNone
  \/ Step_checkFFTbox
  \/ Step_checkKmesh
  \/ Step_initAtomMaps
  \/ Step_initSymmIndex

Spec == Init /\ [][Next]_vars

\* ------------------------------------------------------------------------
\* Symmetries::latticeSymmetries step by step
\* ------------------------------------------------------------------------
\* a skewed square cell with one very long axis whose only norm-lowering step
\* lowers the norm by 1.6e-5, less than MIN_SYMM_TOL
Rthin == << <<1, 0, 1>>, <<0, 32000, 0>>, <<0, 0, 1>> >>

\* a cubic lattice given by a1 = (2,0,0), a2 = (2,2,0), a3 = (2,2,2)
Rtilt == << <<2, 2, 2>>, <<0, 2, 2>>, <<0, 0, 2>> >>

\* a cubic lattice given by a1 = (2,0,0), a2 = (0,2,0), a3 = (4,2,2)
Rfar == << <<2, 0, 4>>, <<0, 2, 2>>, <<0, 0, 2>> >>

\* primitive cell of the face-centered cubic lattice
Rfcc == << <<0, 2, 2>>, <<2, 0, 2>>, <<2, 2, 0>> >>

ReductionLattices == Lattices \cup {Rthin, Rtilt, Rfar, Rfcc}

\* entry of latticeSymmetries: Rreduced = gInfo.R, transmission(1,1,1), invTransmission(1,1,1)
InitLattice ==
  /\ mode = "Automatic"
  /\ shouldMoveAtoms = FALSE
  /\ R \in ReductionLattices
  /\ S = <<2, 2, 2>>
  /\ species = << Species(<< <<0, 0, 0>> >>, <<1>>) >>
  /\ qnums = << QuantumNumber(<<0, 0, 0>>, 2000) >>
  /\ sym = <<>>
  /\ symMesh = <<>>
  /\ atomMap = <<>>
  /\ symmIndex = <<>>
  /\ symLattice = <<>>
  /\ rCenter = zero3
  /\ rCenterCandidates = <<>>
  /\ iCand = 1
  /\ origSymSize = 0
  /\ kmeshWarning = FALSE
  /\ pc = "setup"
  /\ fatal = ""
  /\ NoSymmetrizeYet
  /\ firstRun = <<>>
  /\ kq = <<>>
  /\ Rreduced = R
  /\ transmission = identity
  /\ invTransmission = identity
  /\ changed = FALSE
  /\ nTry = 0
  /\ lpc = "reduce"

\* one pass of the body of the loops over k1, i, j
ReduceTry ==
  /\ lpc = "reduce" /\ nTry < 27
  /\ LET st == ReduceStep([Rreduced |-> Rreduced, transmission |-> transmission,
                           invTransmission |-> invTransmission, changed |-> changed], nTry)
     IN  /\ Rreduced' = st.Rreduced
         /\ transmission' = st.transmission
         /\ invTransmission' = st.invTransmission
         /\ changed' = st.changed
  /\ nTry' = nTry + 1
  /\ UNCHANGED <<setupVars, symmVars, firstRun, kq, lpc>>

\* if(!changed) break; else the next sweep starts with changed = false
ReduceSweepEnd ==
  /\ lpc = "reduce" /\ nTry = 27
  /\ IF changed
     THEN changed' = FALSE /\ nTry' = 0 /\ UNCHANGED lpc
     ELSE lpc' = "search" /\ UNCHANGED <<changed, nTry>>
  /\ UNCHANGED <<setupVars, symmVars, firstRun, kq, Rreduced, transmission, invTransmission>>

\* metric = (~Rreduced)*Rreduced and the iLOOP nest
LatticeSearch ==
  /\ lpc = "search"
  /\ symLattice' = MetricSymmetries(MatMul(Transpose(Rreduced), Rreduced))
  /\ lpc' = "conjugate"
  /\ UNCHANGED <<inputs, species, sym, symMesh, atomMap, symmIndex, rCenter,
                 rCenterCandidates, iCand, origSymSize, kmeshWarning, pc, fatal,
                 symmVars, firstRun, kq, Rreduced, transmission, invTransmission,
                 changed, nTry>>

\* if(nrm2(Rreduced-gInfo.R) > MIN_SYMM_TOL * nrm2(Rreduced)) conjugate; return symLattice
LatticeReturn ==
  /\ lpc = "conjugate"
  /\ symLattice' = IF NormExceedsRelTol(nrm2sq(MatSub(Rreduced, R)), nrm2sq(Rreduced))
                    THEN ConjugateAll(transmission, symLattice, invTransmission)
                    ELSE symLattice
  /\ lpc' = "returned"
  /\ UNCHANGED <<inputs, species, sym, symMesh, atomMap, symmIndex, rCenter,
                 rCenterCandidates, iCand, origSymSize, kmeshWarning, pc, fatal,
                 symmVars, firstRun, kq, Rreduced, transmission, invTransmission,
                 changed, nTry>>

NextLattice == ReduceTry \/ ReduceSweepEnd \/ LatticeSearch \/ LatticeReturn

SpecLattice == InitLattice /\ [][NextLattice]_vars

\* the loop and the calls are run by one thread that never stops by itself
SpecLatticeLive == SpecLattice /\ WF_vars(NextLattice)

\* ------------------------------------------------------------------------
\* The program run twice on the same lattice, atoms, grid, mode and given
\* matrices; the k-mesh, the moveAtoms flag and, in mode none, the matrices
\* stored before setup may differ between the two runs
\* ------------------------------------------------------------------------
StoredLists(md) ==
  IF md = "Manual" THEN ManualLists
  ELSE IF md = "None" THEN {<<>>, <<mirrorX, identity>>}
  ELSE {<<>>}

InitTwice ==
  /\ mode \in {"Automatic", "Manual", "None"}
  /\ shouldMoveAtoms \in (IF mode = "Automatic" THEN BOOLEAN ELSE {FALSE})
  /\ R \in Lattices
  /\ S \in GridSizes
  /\ species \in AtomConfigs
  /\ qnums \in KMeshes
  /\ sym \in StoredLists(mode)
  /\ symMesh = <<>>
  /\ atomMap = <<>>
  /\ symmIndex = <<>>
  /\ symLattice = <<>>
  /\ rCenter = zero3
  /\ rCenterCandidates = <<>>
  /\ iCand = 1
  /\ origSymSize = 0
  /\ kmeshWarning = FALSE
  /\ pc = "setup"
  /\ fatal = ""
  /\ NoSymmetrizeYet
  /\ NoReductionYet
  /\ kq = <<>>
  /\ firstRun = [given |-> sym, qnums |-> qnums, done |-> FALSE,
                  sym |-> <<>>, symMesh |-> <<>>, atomMap |-> <<>>]

\* the first run has returned from setup; the program is started again
RunAgain ==
  /\ pc = "done" /\ ~firstRun.done
  /\ firstRun' = [firstRun EXCEPT !.done = TRUE, !.sym = sym,
                                   !.symMesh = symMesh, !.atomMap = atomMap]
  /\ shouldMoveAtoms' \in (IF mode = "Automatic" THEN BOOLEAN ELSE {FALSE})
  /\ qnums' \in KMeshes
  /\ sym' \in (IF mode = "Manual" THEN {firstRun.given} ELSE StoredLists(mode))
  /\ symMesh' = <<>>
  /\ atomMap' = <<>>
  /\ symmIndex' = <<>>
  /\ symLattice' = <<>>
  /\ rCenter' = zero3
  /\ rCenterCandidates' = <<>>
  /\ iCand' = 1
  /\ origSymSize' = 0
  /\ kmeshWarning' = FALSE
  /\ pc' = "setup"
  /\ UNCHANGED <<mode, R, S, species, fatal, symmVars, latticeVars, kq>>

\* the actions of setup leave firstRun as it is
NextTwice == Next \/ RunAgain

SpecTwice == InitTwice /\ [][NextTwice]_vars

\* ------------------------------------------------------------------------
\* Symmetries::kpointsEquivalent asked after setup
\* ------------------------------------------------------------------------
\* if(mode==SymmetriesNone) return false;
\* for m in sym: if(circDistanceSquared((~m)*k1,k2)<MIN_KPT_DISTANCE) return true;
\* return false;
kpointsEquivalent(md, syms, k1, k2) ==
  IF md = "None" THEN FALSE
  ELSE \E j \in 1..Len(syms) : KptClose(MatVec(Transpose(syms[j]), k1), k2)

\* the k-points handed to kpointsEquivalent: 0, 1/4 and -1/4 along the first
\* axis, 1/4 along the second, 1/2 along the third
KPoints == {<<0, 0, 0>>, <<500, 0, 0>>, <<1500, 0, 0>>, <<0, 500, 0>>, <<0, 0, 1000>>}

\* bool kpointsEquivalent(const vector3<>& k1, const vector3<>& k2) const
KpointsEquivalentCall ==
  /\ pc = "done"
  /\ \E k1 \in KPoints : \E k2 \in KPoints :
       kq' = [k1 |-> k1, k2 |-> k2, result |-> kpointsEquivalent(mode, sym, k1, k2)]
  /\ UNCHANGED <<setupVars, symmVars, latticeVars, firstRun>>

NextKpoints == Next \/ KpointsEquivalentCall

SpecKpoints == Init /\ [][NextKpoints]_vars

\* ------------------------------------------------------------------------

\* Symmetries::initAtomMaps on its own: entered with any symmetry list, not
\* only one that basisReduce or checkSymmetries has been through
\* ------------------------------------------------------------------------
InitAtomMapsCall ==
  /\ mode = "Manual"
  /\ shouldMoveAtoms = FALSE
  /\ R = Rcubic
  /\ S = <<2, 2, 2>>
  /\ species \in AtomConfigs
  /\ qnums = << QuantumNumber(<<0, 0, 0>>, 2000) >>
  /\ sym \in GivenLists
  /\ symMesh = <<>>
  /\ atomMap = <<>>
  /\ symmIndex = <<>>
  /\ symLattice = <<>>
  /\ rCenter = zero3
  /\ rCenterCandidates = <<>>
  /\ iCand = 1
  /\ origSymSize = 0
  /\ kmeshWarning = FALSE
  /\ pc = "initAtomMaps"
  /\ fatal = ""
  /\ NoSymmetrizeYet
  /\ NoAuxYet

SpecAtomMaps == InitAtomMapsCall /\ [][Step_initAtomMaps]_vars

\* ------------------------------------------------------------------------
\* setup followed by calls of symmetrize
\* ------------------------------------------------------------------------
\* rotations by 90, 180 and 270 degrees about the third axis
rotZ == << <<0, -1, 0>>, <<1, 0, 0>>, <<0, 0, 1>> >>

rotZ2 == matrix3(-1, -1, 1)

rotZ3 == << <<0, 1, 0>>, <<-1, 0, 0>>, <<0, 0, 1>> >>

\* matrices given with the symmetry-matrix command: a 4-fold rotation group,
\* a mirror group, and two lists that are not closed under multiplication
SymmManualLists ==
  { <<rotZ, rotZ2, identity, rotZ3>>,
    <<mirrorX, identity>>,
    <<identity, rotZ>>,
    <<inversion, mirrorX>> }

SymmGridSizes == {<<2, 2, 2>>, <<3, 3, 1>>}

SymmAtomConfigs ==
  { << Species(<< <<0, 0, 0>> >>, <<1>>) >>,
    << Species(<< <<200, 0, 0>> >>, <<1>>) >>,
    << Species(<< <<200, 0, 0>>, <<0, 200, 0>>, <<0, 0, 200>> >>, <<1, 1, 1>>) >>,
    << Species(<< <<0, 0, 0>> >>, <<1>>),
       Species(<< <<500, 0, 0>>, <<0, 500, 0>>, <<1500, 0, 0>>, <<0, 1500, 0>> >>, <<1, 1, 1, 1>>) >> }

\* scalar fields: a single non-zero value at one grid point, and a field
\* whose values all differ
FieldValues == {1, -3}

DeltaField(nr, k, v) == [p \in 1..nr |-> IF p = k + 1 THEN RatOfInt(v) ELSE RatOfInt(0)]

RampField(nr) == [p \in 1..nr |-> RatOfInt(p * p)]

Fields(Sv) ==
  LET nr == Sv[1] * Sv[2] * Sv[3]
  IN  {DeltaField(nr, k, v) : k \in 0..(nr - 1), v \in FieldValues} \cup {RampField(nr)}

unitVec(d) == [i \in Idx |-> IF i = d THEN RatOfInt(1) ELSE RatOfInt(0)]

\* forces: a unit force along one lattice direction on one atom
ForceFields(sps) ==
  { [sp \in 1..Len(sps) |-> [atom \in 1..Len(sps[sp].atpos) |->
        IF sp = s0 /\ atom = a0 THEN unitVec(d) ELSE ratZero3]] :
      s0 \in 1..Len(sps), a0 \in 1..4, d \in Idx }

ThreadCounts == {1, 2}

MaxCalls == 2

NoSum == <<0, 0>>

InitSymmetrize ==
  /\ mode \in {"Automatic", "Manual", "None"}
  /\ shouldMoveAtoms \in (IF mode = "Automatic" THEN BOOLEAN ELSE {FALSE})
  /\ R = Rcubic
  /\ S \in SymmGridSizes
  /\ species \in SymmAtomConfigs
  /\ qnums = << QuantumNumber(<<0, 0, 0>>, 2000) >>
  /\ sym \in (IF mode = "Manual" THEN SymmManualLists ELSE {<<>>})
  /\ symMesh = <<>>
  /\ atomMap = <<>>
  /\ symmIndex = <<>>
  /\ symLattice = <<>>
  /\ rCenter = zero3
  /\ rCenterCandidates = <<>>
  /\ iCand = 1
  /\ origSymSize = 0
  /\ kmeshWarning = FALSE
  /\ pc = "setup"
  /\ fatal = ""
  /\ NoSymmetrizeYet
  /\ NoAuxYet

\* what the caller hands to symmetrize: every scalar field of Fields with
\* one force field, and every force field of ForceFields with one scalar field
SymmInputs(Sv, sps) ==
  LET nr == Sv[1] * Sv[2] * Sv[3]
      f1 == [sp \in 1..Len(sps) |-> [atom \in 1..Len(sps[sp].atpos) |->
               IF sp = 1 /\ atom = 1 THEN unitVec(1) ELSE ratZero3]]
  IN  {<<x0, f1>> : x0 \in Fields(Sv)} \cup {<<RampField(nr), f0>> : f0 \in ForceFields(sps)}

\* the caller fills a scalar field and the forces
LoadFields ==
  /\ pc = "done" /\ spc = "idle" /\ x = <<>> /\ f = <<>>
  /\ \E in \in SymmInputs(S, species) :
       x' = in[1] /\ xPre' = in[1] /\ f' = in[2] /\ fPre' = in[2]
  /\ UNCHANGED <<auxVars, setupVars, nCalls, nForceCalls, spc, tnext, tstop, tsum>>

\* Symmetries::symmetrize(DataRptr&): return at once, or threadLaunch
SymmetrizeScalar ==
  /\ pc = "done" /\ spc = "idle" /\ x # <<>> /\ nCalls < MaxCalls
  /\ xPre' = x
  /\ IF Len(sym) = 1
     THEN nCalls' = nCalls + 1 /\ UNCHANGED <<spc, tnext, tstop, tsum>>
     ELSE \E nThr \in ThreadCounts :
            LET nSymmClasses == nSymmClassesOf(symmIndex, Len(sym))
            IN  /\ tnext' = [t \in 1..nThr |-> ThreadStart(t, nThr, nSymmClasses)]
                /\ tstop' = [t \in 1..nThr |-> ThreadStop(t, nThr, nSymmClasses)]
                /\ tsum' = [t \in 1..nThr |-> NoSum]
                /\ spc' = "running"
                /\ UNCHANGED nCalls
  /\ UNCHANGED <<auxVars, setupVars, x, f, fPre, nForceCalls>>

\* symmetrize_sub, one thread: the reads of one class and xSum *= nrotInv
SubRead ==
  /\ spc = "running"
  /\ \E t \in 1..Len(tnext) :
       /\ tnext[t] < tstop[t] /\ tsum[t] = NoSum
       /\ tsum' = [tsum EXCEPT ![t] = ClassMean(x, symmIndex, Len(sym), tnext[t])]
  /\ UNCHANGED <<auxVars, setupVars, x, xPre, f, fPre, nCalls, nForceCalls, spc, tnext, tstop>>

\* symmetrize_sub, one thread: the writes of one class, then i++
SubWrite ==
  /\ spc = "running"
  /\ \E t \in 1..Len(tnext) :
       /\ tnext[t] < tstop[t] /\ tsum[t] # NoSum
       /\ x' = ClassWrite(x, symmIndex, Len(sym), tnext[t], tsum[t])
       /\ tnext' = [tnext EXCEPT ![t] = tnext[t] + 1]
       /\ tsum' = [tsum EXCEPT ![t] = NoSum]
  /\ UNCHANGED <<auxVars, setupVars, xPre, f, fPre, nCalls, nForceCalls, spc, tstop>>

\* threadLaunch returns when every thread has finished
SymmetrizeJoin ==
  /\ spc = "running"
  /\ \A t \in 1..Len(tnext) : tnext[t] >= tstop[t]
  /\ spc' = "idle" /\ nCalls' = nCalls + 1
  /\ tnext' = <<>> /\ tstop' = <<>> /\ tsum' = <<>>
  /\ UNCHANGED <<auxVars, setupVars, x, xPre, f, fPre, nForceCalls>>

\* Symmetries::symmetrize(IonicGradient&)
SymmetrizeForces ==
  /\ pc = "done" /\ spc = "idle" /\ f # <<>> /\ nForceCalls < MaxCalls
  /\ fPre' = f
  /\ f' = symmetrizeForces(f, sym, atomMap)
  /\ nForceCalls' = nForceCalls + 1
  /\ UNCHANGED <<auxVars, setupVars, x, xPre, nCalls, spc, tnext, tstop, tsum>>

NextSymmetrize ==
  \/ Next
  \/ LoadFields
  \/ SymmetrizeScalar
  \/ SubRead
  \/ SubWrite
  \/ SymmetrizeJoin
  \/ SymmetrizeForces

SpecSymmetrize == InitSymmetrize /\ [][NextSymmetrize]_vars

\* ------------------------------------------------------------------------
\* Properties
\* ------------------------------------------------------------------------
\* setup returned: no die() was met
SetupCompleted == pc = "done"

\* checkFFTbox returned (the later steps leave sym, symMesh and S alone)
PastFFTbox == pc \in {"checkKmesh", "initAtomMaps", "initSymmIndex", "done"}
                \/ fatal = "moveScale"

\* C1: after setup completes without a fatal error, in every mode, the list
\* returned by getMatrices is non-empty and its element 0 is the identity.
C1_IdentityFirst ==
  SetupCompleted => Len(sym) >= 1 /\ sym[1] = identity

\* C2: every matrix returned by latticeSymmetries leaves the metric of the
\* original lattice R invariant: nrm2(R^T R - m^T (R^T R) m) < MIN_SYMM_TOL
\* (for integer matrices: the difference is zero).
C2_MetricInvariant ==
  pc = "basisReduce" =>
    LET G == MatMul(Transpose(R), R)
    IN  \A k \in 1..Len(symLattice) :
          MatSub(G, MatMul(Transpose(symLattice[k]), MatMul(G, symLattice[k])))
            = matrix3(0, 0, 0)

IsSimpleCubic(L) ==
  /\ \A i \in Idx : \A j \in Idx : i # j => L[i][j] = 0
  /\ L[1][1] = L[2][2] /\ L[2][2] = L[3][3] /\ L[1][1] > 0

AllAtoms == UNION {{<<s, a>> : a \in 1..Len(species[s].atpos)} : s \in 1..Len(species)}

SingleAtomAtOrigin ==
  /\ Cardinality(AllAtoms) = 1
  /\ \A sa \in AllAtoms : species[sa[1]].atpos[sa[2]] = zero3

\* C3: for a simple cubic lattice with a single atom at the origin, automatic
\* detection (latticeSymmetries, then basisReduce with zero offset) yields
\* exactly 48 distinct symmetry matrices.
C3_CubicHas48 ==
  (mode = "Automatic" /\ IsSimpleCubic(R) /\ SingleAtomAtOrigin
      /\ pc \in {"sortSymmetries", "centerSearch", "checkFFTbox"})
    => Len(sym) = 48 /\ Cardinality({sym[k] : k \in 1..Len(sym)}) = 48

C3_Witness ==
  mode = "Automatic" /\ IsSimpleCubic(R) /\ SingleAtomAtOrigin
    /\ pc = "checkFFTbox" /\ Len(sym) = 48

\* The atoms of species s (1-based positions in atpos)
AtomsOf(s) == 1..Len(species[s].atpos)

\* Some atom of species s lies within MIN_SYMM_TOL of c + m(p - c), p being
\* the position of atom a of species s
HasImage(m, c, s, a) ==
  LET p == species[s].atpos[a]
      d == <<p[1] - c[1], p[2] - c[2], p[3] - c[3]>>
      image == <<c[1] + m[1][1] * d[1] + m[1][2] * d[2] + m[1][3] * d[3],
                 c[2] + m[2][1] * d[1] + m[2][2] * d[2] + m[2][3] * d[3],
                 c[3] + m[3][1] * d[1] + m[3][2] * d[2] + m[3][3] * d[3]>>
  IN  \E b \in AtomsOf(s) : SymmClose(image, species[s].atpos[b])

\* m maps every atom of every species onto an atom of the same species
KeepsAtoms(m, c) ==
  \A s \in 1..Len(species) : \A a \in AtomsOf(s) : HasImage(m, c, s, a)

\* res lists, in the order of symLattice, exactly the matrices of symLattice
\* that keep the atoms about the center c
IsSelectionAbout(res, c) ==
  LET kept == {k \in 1..Len(symLattice) : KeepsAtoms(symLattice[k], c)}
  IN  /\ Len(res) = Cardinality(kept)
      /\ \A a \in 1..Len(res) :
           \E k \in kept : /\ res[a] = symLattice[k]
                           /\ Cardinality({j \in kept : j < k}) = a - 1

\* C4: basisReduce(symLattice, offset) returns, in the original order, exactly
\* the matrices m of symLattice for which every atom position p of every
\* species has an atom p' of the same species with
\* circDistanceSquared(offset + m(p - offset), p') < MIN_SYMM_TOL; species
\* without atoms impose no constraint. (Seen right after the call with zero
\* offset, and after a call of the center search that replaced sym.)
C4_BasisReduceExact ==
  /\ pc = "sortSymmetries" => IsSelectionAbout(sym, zero3)
  /\ (pc = "centerSearch" /\ Len(sym) > origSymSize) => IsSelectionAbout(sym, rCenter)

C4_Witness ==
  /\ pc = "centerSearch" /\ Len(sym) > origSymSize
  /\ rCenter # zero3
  /\ Len(sym) >= 1 /\ Len(sym) < Len(symLattice)

\* The 0-based indices of the atoms of species s within MIN_SYMM_TOL of the
\* image m * p of atom a (1-based) of species s
ImagesOf(m, s, a) ==
  {b - 1 : b \in {b2 \in AtomsOf(s) :
                    SymmClose(MatVec(m, species[s].atpos[a]), species[s].atpos[b2])}}

\* every <<species, atom, matrix>> of the loops of initAtomMaps (1-based)
Triples ==
  UNION {{<<s, a, k>> : a \in AtomsOf(s), k \in 1..Len(sym)} : s \in 1..Len(species)}

\* C5 as stated: after a successful setup with more than one symmetry, every
\* (species, atom, matrix) has exactly one atom within tolerance of the image
\* and atomMap records it.
C5_ExactlyOneImage ==
  (SetupCompleted /\ Len(sym) > 1) =>
    \A t \in Triples :
      /\ Cardinality(ImagesOf(sym[t[3]], t[1], t[2])) = 1
      /\ atomMap[t[1]][t[2]][t[3]] \in ImagesOf(sym[t[3]], t[1], t[2])

\* C5 amended: after a successful setup with more than one symmetry, every
\* (species, atom, matrix) has at least one atom of the same species within
\* tolerance of the image, and atomMap records the one of highest index.
C5_LastImageRecorded ==
  (SetupCompleted /\ Len(sym) > 1) =>
    \A t \in Triples :
      LET W == ImagesOf(sym[t[3]], t[1], t[2])
      IN  /\ W # {}
          /\ atomMap[t[1]][t[2]][t[3]] \in W
          /\ \A b \in W : b <= atomMap[t[1]][t[2]][t[3]]

C5_Witness ==
  /\ SetupCompleted /\ Len(sym) > 1
  /\ \E t \in Triples : Cardinality(ImagesOf(sym[t[3]], t[1], t[2])) > 1
  /\ \E t \in Triples : atomMap[t[1]][t[2]][t[3]] # t[2] - 1

\* Some (species, atom, matrix) has no atom within tolerance of the image
MissingImage == \E t \in Triples : ImagesOf(sym[t[3]], t[1], t[2]) = {}

\* Some atom and an atom within tolerance of its image differ in moveScale
RelatedMismatch ==
  \E t \in Triples : \E b \in ImagesOf(sym[t[3]], t[1], t[2]) :
    species[t[1]].moveScale[t[2]] # species[t[1]].moveScale[b + 1]

ImagesExistInSetup ==
  pc \in {"initAtomMaps", "initSymmIndex", "done"} => ~MissingImage

\* initAtomMaps returned
PastAtomMaps == pc \in {"initSymmIndex", "done"}

\* C7 as stated: initAtomMaps ends the run if two atoms of a species related
\* by a symmetry of the final group differ in moveScale, and does not fail
\* for this reason otherwise.
C7_DiesIffMismatch ==
  /\ PastAtomMaps => ~RelatedMismatch
  /\ fatal = "moveScale" => RelatedMismatch

\* C7 amended: when the final group has more than one matrix, initAtomMaps
\* ends the run exactly when an atom and an atom within tolerance of its
\* image differ in moveScale; when the group has a single matrix it returns
\* at once and never fails.
C7_DiesIffMismatchInGroup ==
  /\ (PastAtomMaps /\ Len(sym) > 1) => ~RelatedMismatch
  /\ fatal = "moveScale" => (RelatedMismatch /\ Len(sym) > 1)

C7_Witness ==
  /\ fatal = "moveScale" /\ RelatedMismatch /\ Len(sym) > 1
  /\ \E t \in Triples : \E b \in ImagesOf(sym[t[3]], t[1], t[2]) :
       b # t[2] - 1 /\ species[t[1]].moveScale[t[2]] # species[t[1]].moveScale[b + 1]

\* S[i]*m(i,j) is an integer multiple of S[j] for every entry
Divides(m) ==
  \A i \in Idx : \A j \in Idx : (S[i] * m[i][j]) % S[j] = 0

\* C8: checkFFTbox ends the run with a fatal error if and only if for some
\* matrix m of the group and some entry (i,j), S[i]*m(i,j) is not an integer
\* multiple of S[j].
C8_FFTboxDiesIffNotCommensurate ==
  /\ fatal = "fftBox" => \E k \in 1..Len(sym) : ~Divides(sym[k])
  /\ PastFFTbox => \A k \in 1..Len(sym) : Divides(sym[k])

\* a grid rejected for a symmetry that mixes two axes of different size
C8_Witness ==
  /\ fatal = "fftBox"
  /\ \E k \in 1..Len(sym) : \E i \in Idx : \E j \in Idx :
       i # j /\ sym[k][i][j] # 0 /\ S[i] # S[j] /\ ~Divides(sym[k])

GridPoints == (0..(S[1] - 1)) \X (0..(S[2] - 1)) \X (0..(S[3] - 1))

\* C9: when checkFFTbox succeeds, symMesh has the length and order of sym and
\* every mesh matrix M satisfies M * Diag(S) = Diag(S) * m, so that M maps
\* grid indices r to S times the lattice-coordinate image m * (r / S).
C9_MeshMatrices ==
  PastFFTbox =>
    /\ Len(symMesh) = Len(sym)
    /\ \A k \in 1..Len(sym) :
         /\ \A i \in Idx : \A j \in Idx : symMesh[k][i][j] * S[j] = S[i] * sym[k][i][j]
         /\ \A r \in GridPoints : \A i \in Idx :
              (symMesh[k][i][1] * r[1] + symMesh[k][i][2] * r[2] + symMesh[k][i][3] * r[3])
                  * (S[1] * S[2] * S[3])
                = S[i] * ( sym[k][i][1] * r[1] * S[2] * S[3]
                         + sym[k][i][2] * r[2] * S[1] * S[3]
                         + sym[k][i][3] * r[3] * S[1] * S[2] )

C9_Witness ==
  /\ SetupCompleted /\ Len(sym) > 1
  /\ \E k \in 1..Len(sym) : symMesh[k] # sym[k]

\* m maps the k-point mesh onto itself: every k-point has a mesh point at
\* (~m) * k with the same weight, both within MIN_KPT_DISTANCE
MapsKmesh(m) ==
  \A n1 \in 1..Len(qnums) : \E n2 \in 1..Len(qnums) :
    /\ KptClose(<<m[1][1] * qnums[n1].k[1] + m[2][1] * qnums[n1].k[2] + m[3][1] * qnums[n1].k[3],
                  m[1][2] * qnums[n1].k[1] + m[2][2] * qnums[n1].k[2] + m[3][2] * qnums[n1].k[3],
                  m[1][3] * qnums[n1].k[1] + m[2][3] * qnums[n1].k[2] + m[3][3] * qnums[n1].k[3]>>,
                qnums[n2].k)
    /\ qnums[n1].weight = qnums[n2].weight

\* C10: checkKmesh warns exactly when some matrix of the group fails to map
\* the k-point mesh onto itself; it leaves sym and symMesh unchanged, and
\* setup goes on to the atom maps and the index table with the full group.
C10_KmeshWarningOnly ==
  [][ /\ pc = "checkKmesh" =>
          /\ kmeshWarning' = (\E k \in 1..Len(sym) : ~MapsKmesh(sym[k]))
          /\ pc' = "initAtomMaps"
      /\ pc \in {"checkKmesh", "initAtomMaps", "initSymmIndex"} =>
          (sym' = sym /\ symMesh' = symMesh)
    ]_vars

C10_Witness ==
  /\ SetupCompleted /\ kmeshWarning
  /\ \E k \in 1..Len(sym) : MapsKmesh(sym[k])
  /\ Len(symmIndex) > 0 /\ Len(atomMap) = Len(species)

\* ------------------------------------------------------------------------
\* Properties of symmetrize
\* ------------------------------------------------------------------------
\* flat indices of the grid, 0-based
GridIndices == 0..(S[1] * S[2] * S[3] - 1)

FlatIndex(r) == r[3] + S[3] * (r[2] + S[2] * r[1])

PointAt(p) == CHOOSE r \in GridPoints : FlatIndex(r) = p

\* the image of grid point p under mesh matrix M, wrapped into the grid
WrappedImage(M, p) ==
  LET r == PointAt(p)
  IN  FlatIndex(<< (M[1][1] * r[1] + M[1][2] * r[2] + M[1][3] * r[3]) % S[1],
                   (M[2][1] * r[1] + M[2][2] * r[2] + M[2][3] * r[3]) % S[2],
                   (M[3][1] * r[1] + M[3][2] * r[2] + M[3][3] * r[3]) % S[3] >>)

\* the symmetry orbit of grid point p: its images under all mesh matrices
OrbitOf(p) == {WrappedImage(symMesh[k], p) : k \in 1..Len(symMesh)}

RECURSIVE RatSumOver(_, _)
RatSumOver(xv, P) ==
  IF P = {} THEN RatOfInt(0)
  ELSE LET p == CHOOSE q \in P : TRUE
       IN  RatAdd(xv[p + 1], RatSumOver(xv, P \ {p}))

\* unweighted arithmetic mean of xv over the grid points of P
MeanOver(xv, P) == RatDivInt(RatSumOver(xv, P), Cardinality(P))

\* a call of symmetrize(DataRptr&) has returned and none is running
ScalarReturned == pc = "done" /\ spc = "idle" /\ x # <<>> /\ nCalls >= 1

\* the list of matrices is closed under multiplication
IsClosed(syms) ==
  \A a \in 1..Len(syms) : \A b \in 1..Len(syms) :
    \E c \in 1..Len(syms) : MatMul(syms[a], syms[b]) = syms[c]

\* automatic detection, or matrices given by the user that form a group
DetectedOrClosed == mode = "Automatic" \/ IsClosed(sym)

\* what automatic detection hands to the rest of setup is closed
AutomaticListClosed ==
  (mode = "Automatic" /\ pc = "checkFFTbox") => IsClosed(sym)

\* C11 as stated: after symmetrize(scalarField) with more than one matrix,
\* the value at every grid point is the unweighted mean of the pre-call
\* values over the distinct grid points of its orbit.
C11_OrbitMean ==
  (ScalarReturned /\ Len(sym) > 1) =>
    \A p \in GridIndices : x[p + 1] = MeanOver(xPre, OrbitOf(p))

\* C11 on closed lists: the same holds when the matrices were detected automatically or
\* the matrices given by the user are closed under multiplication.
C11_OrbitMeanOfGroup ==
  (ScalarReturned /\ Len(sym) > 1 /\ DetectedOrClosed) =>
    \A p \in GridIndices : x[p + 1] = MeanOver(xPre, OrbitOf(p))

C11_Witness ==
  /\ ScalarReturned /\ nCalls = 1 /\ Len(sym) > 1 /\ DetectedOrClosed
  /\ x # xPre
  /\ \E p \in GridIndices :
       Cardinality(OrbitOf(p)) > 1 /\ Cardinality(OrbitOf(p)) < Len(sym)

\* xv takes one value on every orbit
ConstantOnOrbits(xv) ==
  \A p \in GridIndices : \A q \in OrbitOf(p) : xv[q + 1] = xv[p + 1]

\* C12 as stated: symmetrize(symmetrize(x)) = symmetrize(x) for every field
\* and every final list, and a field constant on every orbit is unchanged.
C12_Idempotent ==
  /\ (ScalarReturned /\ nCalls >= 2) => x = xPre
  /\ (ScalarReturned /\ ConstantOnOrbits(xPre)) => x = xPre

\* C12 on closed lists: the same holds when the matrices were detected automatically or
\* the matrices given by the user are closed under multiplication (or there
\* is a single matrix).
C12_IdempotentOnGroup ==
  (ScalarReturned /\ (Len(sym) = 1 \/ DetectedOrClosed)) =>
    /\ nCalls >= 2 => x = xPre
    /\ ConstantOnOrbits(xPre) => x = xPre

C12_Witness ==
  /\ ScalarReturned /\ nCalls = 2 /\ Len(sym) > 1 /\ DetectedOrClosed
  /\ x = xPre
  /\ \E p \in GridIndices : \E q \in GridIndices : x[p + 1] # x[q + 1]

\* the points where xv is not zero
Support(xv) == {p \in GridIndices : xv[p + 1] # RatOfInt(0)}

\* the list holds a rotation of order 4
HasFourFold ==
  \E k \in 1..Len(sym) :
    LET m2 == MatMul(sym[k], sym[k])
    IN  m2 # identity /\ MatMul(m2, m2) = identity

\* C13: for a field that is zero except for the value v at one grid point
\* whose orbit under a 4-fold rotation group has 4 grid points, symmetrize
\* leaves exactly v/4 at each of the 4 orbit points and leaves every other
\* grid point unchanged.
C13_DeltaOverFourFoldOrbit ==
  (ScalarReturned /\ nCalls = 1 /\ HasFourFold /\ IsClosed(sym)) =>
    \A p \in Support(xPre) :
      (Support(xPre) = {p} /\ Cardinality(OrbitOf(p)) = 4) =>
        \A q \in GridIndices :
          x[q + 1] = IF q \in OrbitOf(p) THEN Rat(xPre[p + 1][1], 4 * xPre[p + 1][2])
                     ELSE xPre[q + 1]

C13_Witness ==
  /\ ScalarReturned /\ nCalls = 1 /\ HasFourFold /\ IsClosed(sym)
  /\ \E p \in GridIndices :
       /\ Support(xPre) = {p} /\ Cardinality(OrbitOf(p)) = 4
       /\ x[p + 1] = <<-3, 4>>
       /\ Cardinality(Support(x)) = 4

\* a call of symmetrize(IonicGradient&) has returned
ForcesReturned == pc = "done" /\ f # <<>> /\ nForceCalls >= 1

\* inverse of an integer matrix of determinant +1 or -1
Inverse(m) ==
  LET det == m[1][1] * (m[2][2] * m[3][3] - m[2][3] * m[3][2])
           - m[1][2] * (m[2][1] * m[3][3] - m[2][3] * m[3][1])
           + m[1][3] * (m[2][1] * m[3][2] - m[2][2] * m[3][1])
      nx(i) == (i % 3) + 1
      cof(i, j) == m[nx(j)][nx(i)] * m[nx(nx(j))][nx(nx(i))]
                 - m[nx(j)][nx(nx(i))] * m[nx(nx(j))][nx(i)]
  IN  << <<det * cof(1,1), det * cof(1,2), det * cof(1,3)>>,
         <<det * cof(2,1), det * cof(2,2), det * cof(2,3)>>,
         <<det * cof(3,1), det * cof(3,2), det * cof(3,3)>> >>

\* sum over the matrices k..Len(sym) of (the transpose of sym[k], or of its
\* inverse) applied to the force fv holds for atom atomMap[s][a][k]
RECURSIVE ForceSumFrom(_, _, _, _, _)
ForceSumFrom(fv, s, a, k, inverse) ==
  IF k > Len(sym) THEN ratZero3
  ELSE LET m == IF inverse THEN Inverse(sym[k]) ELSE sym[k]
           v == fv[s][atomMap[s][a][k] + 1]
           t == << RatAdd(RatAdd(RatMulInt(m[1][1], v[1]), RatMulInt(m[2][1], v[2])), RatMulInt(m[3][1], v[3])),
                   RatAdd(RatAdd(RatMulInt(m[1][2], v[1]), RatMulInt(m[2][2], v[2])), RatMulInt(m[3][2], v[3])),
                   RatAdd(RatAdd(RatMulInt(m[1][3], v[1]), RatMulInt(m[2][3], v[2])), RatMulInt(m[3][3], v[3])) >>
           rest == ForceSumFrom(fv, s, a, k + 1, inverse)
       IN  <<RatAdd(t[1], rest[1]), RatAdd(t[2], rest[2]), RatAdd(t[3], rest[3])>>

ForceMean(fv, s, a, inverse) ==
  LET sum == ForceSumFrom(fv, s, a, 1, inverse)
  IN  <<RatDivInt(sum[1], Len(sym)), RatDivInt(sum[2], Len(sym)), RatDivInt(sum[3], Len(sym))>>

\* C14 as stated: symmetrize(forceField) replaces the force on every atom by
\* 1/|G| times the sum over the matrices m of the inverse-transpose of m
\* applied to the pre-call force on atom atomMap[species][a][m].
C14_InverseTransposeMean ==
  [][ (nForceCalls' = nForceCalls + 1 /\ Len(sym) > 1) =>
        \A s \in 1..Len(species) : \A a \in AtomsOf(s) :
          f'[s][a] = ForceMean(f, s, a, TRUE) ]_vars

\* C14 amended: symmetrize(forceField) replaces the force on every atom by
\* 1/|G| times the sum over the matrices m of the transpose of m applied to
\* the pre-call force on atom atomMap[species][a][m]; every output is
\* computed from the pre-call forces only.
C14_TransposeMean ==
  [][ (nForceCalls' = nForceCalls + 1 /\ Len(sym) > 1) =>
        \A s \in 1..Len(species) : \A a \in AtomsOf(s) :
          f'[s][a] = ForceMean(f, s, a, FALSE) ]_vars

C14_Witness ==
  /\ ForcesReturned /\ nForceCalls = 1 /\ Len(sym) > 1
  /\ f # fPre
  /\ \E s \in 1..Len(species) : \E a \in AtomsOf(s) :
       /\ f[s][a] # ForceMean(fPre, s, a, TRUE)
       /\ \E k \in 1..Len(sym) : atomMap[s][a][k] # a - 1 /\ Transpose(sym[k]) # sym[k]

\* C15: when the list holds only the identity, both symmetrize calls return
\* with their argument unchanged, nothing runs, and neither the atom map nor
\* the symmetry index table has been built.
C15_TrivialGroupNoOp ==
  (pc = "done" /\ sym = <<identity>>) =>
    /\ x = xPre /\ f = fPre
    /\ spc = "idle"
    /\ atomMap = <<>> /\ symmIndex = <<>>

C15_Witness ==
  /\ pc = "done" /\ sym = <<identity>>
  /\ nCalls >= 1 /\ nForceCalls >= 1
  /\ x # <<>> /\ x = xPre /\ f = fPre

\* the classes of the symmetry index table that hold grid index p
ClassesHolding(p) ==
  {i \in 0..(nSymmClassesOf(symmIndex, Len(sym)) - 1) :
     \E j \in 1..Len(sym) : symmIndex[Len(sym) * i + j] = p}

\* every thread of the running call has finished its classes
ThreadsFinished ==
  spc = "running" /\ \A t \in 1..Len(tnext) : tnext[t] >= tstop[t]

\* C16 as stated: each grid index belongs to exactly one class of the
\* symmetry index table, so that whatever the number of threads and their
\* interleaving, the result is that of one thread working alone.
C16_ClassesDisjoint ==
  (pc = "done" /\ Len(sym) > 1) =>
    /\ \A p \in GridIndices : Cardinality(ClassesHolding(p)) = 1
    /\ (ThreadsFinished \/ ScalarReturned) =>
         x = symmetrize_sub(0, nSymmClassesOf(symmIndex, Len(sym)), Len(sym), xPre, symmIndex)

\* C16 on closed lists: the same holds when the matrices were detected automatically or
\* the matrices given by the user are closed under multiplication.
C16_ClassesDisjointForGroup ==
  (pc = "done" /\ Len(sym) > 1 /\ DetectedOrClosed) =>
    /\ \A p \in GridIndices : Cardinality(ClassesHolding(p)) = 1
    /\ (ThreadsFinished \/ ScalarReturned) =>
         x = symmetrize_sub(0, nSymmClassesOf(symmIndex, Len(sym)), Len(sym), xPre, symmIndex)

C16_Witness ==
  /\ pc = "done" /\ Len(sym) > 1 /\ DetectedOrClosed
  /\ ThreadsFinished /\ Len(tnext) = 2
  /\ tstop[1] >= 1 /\ tstop[2] > tstop[1]
  /\ x # xPre

\* ------------------------------------------------------------------------
\* Properties of the symmetry-center search
\* ------------------------------------------------------------------------
\* the number of matrices of symLattice that keep the atoms about center c
KeptCount(c) == Cardinality({k \in 1..Len(symLattice) : KeepsAtoms(symLattice[k], c)})

Midpoint(p, q) == <<(p[1] + q[1]) \div 2, (p[2] + q[2]) \div 2, (p[3] + q[3]) \div 2>>

\* atom positions, and midpoints of two atoms of one species
SameSpeciesCenters ==
  UNION {{species[s].atpos[a] : a \in AtomsOf(s)} \cup
         {Midpoint(species[s].atpos[ab[1]], species[s].atpos[ab[2]]) :
            ab \in AtomsOf(s) \X AtomsOf(s)} : s \in 1..Len(species)}

\* midpoints of any two atoms of the configuration
AllPairMidpoints ==
  {Midpoint(species[ab[1][1]].atpos[ab[1][2]], species[ab[2][1]].atpos[ab[2][2]]) :
     ab \in AllAtoms \X AllAtoms}

\* some candidate origin admits strictly more symmetries than the zero offset
BetterCenterExists == \E c \in SameSpeciesCenters : KeptCount(c) > KeptCount(zero3)

\* none of checkFFTbox, checkKmesh, initAtomMaps, initSymmIndex has acted
NoLaterStepRan ==
  symMesh = <<>> /\ atomMap = <<>> /\ symmIndex = <<>> /\ ~kmeshWarning

\* C17: in automatic mode with the move-atoms flag set, if some candidate
\* origin admits strictly more symmetries than the zero offset, setup ends
\* the program after reporting the translation and the old and new counts and
\* none of the four later steps runs; if no candidate is strictly better, or
\* the flag is off, setup proceeds with the group found at the zero offset.
C17_BetterCenterStopsSetup ==
  /\ [](fatal = "betterCenter" =>
          /\ mode = "Automatic" /\ shouldMoveAtoms /\ NoLaterStepRan
          /\ rCenter # zero3 /\ Len(sym) > origSymSize)
  /\ []((mode = "Automatic" /\ pc = "checkFFTbox") =>
          /\ rCenter = zero3
          /\ Len(sym) = KeptCount(zero3)
          /\ \A k \in 1..Len(symLattice) :
               KeepsAtoms(symLattice[k], zero3) <=> \E j \in 1..Len(sym) : sym[j] = symLattice[k]
          /\ shouldMoveAtoms => ~BetterCenterExists)
  /\ [][ (pc = "centerSearch" /\ iCand > Len(rCenterCandidates)) =>
           IF BetterCenterExists
           THEN /\ pc' = "dead" /\ fatal' = "betterCenter"
                /\ origSymSize = KeptCount(zero3)
                /\ Len(sym') = KeptCount(rCenter) /\ Len(sym') > origSymSize
                /\ \A s \in 1..Len(species) : \A a \in AtomsOf(s) : \A i \in Idx :
                     species'[s].atpos[a][i] = species[s].atpos[a][i] - rCenter[i]
           ELSE pc' = "checkFFTbox" /\ sym' = sym /\ species' = species ]_vars

C17_Witness ==
  /\ fatal = "betterCenter" /\ NoLaterStepRan
  /\ rCenter # zero3 /\ origSymSize >= 1 /\ Len(sym) > origSymSize

\* C18 as stated: the candidate origins hold every atom position and the
\* midpoint of every pair of atoms of the configuration.
C18_AllPairsProposed ==
  pc = "centerSearch" =>
    LET proposed == {rCenterCandidates[i] : i \in 1..Len(rCenterCandidates)}
    IN  /\ \A sa \in AllAtoms : species[sa[1]].atpos[sa[2]] \in proposed
        /\ AllPairMidpoints \subseteq proposed

\* C18 amended: the candidate origins are every atom position and the
\* midpoint 0.5*(p1+p2) of every pair of atoms of the same species, and
\* nothing else; two atoms of different species contribute no midpoint.
C18_SameSpeciesPairsProposed ==
  pc = "centerSearch" =>
    /\ {rCenterCandidates[i] : i \in 1..Len(rCenterCandidates)} = SameSpeciesCenters
    /\ \A s \in 1..Len(species) : \A a \in AtomsOf(s) : \A b \in AtomsOf(s) :
         \E i \in 1..Len(rCenterCandidates) :
           rCenterCandidates[i] = Midpoint(species[s].atpos[a], species[s].atpos[b])

C18_Witness ==
  /\ pc = "centerSearch"
  /\ \E s \in 1..Len(species) : \E a \in AtomsOf(s) : \E b \in AtomsOf(s) :
       /\ a # b
       /\ \A c \in AtomsOf(s) : species[s].atpos[c] # Midpoint(species[s].atpos[a], species[s].atpos[b])
       /\ \E i \in 1..Len(rCenterCandidates) :
            rCenterCandidates[i] = Midpoint(species[s].atpos[a], species[s].atpos[b])

\* two atoms, at (0,0,0) and (0.5,0.5,0.5)
TwoAtomsOriginAndBodyCenter ==
  /\ Cardinality(AllAtoms) = 2
  /\ {species[sa[1]].atpos[sa[2]] : sa \in AllAtoms} = {zero3, <<PosDen \div 2, PosDen \div 2, PosDen \div 2>>}

\* the center search of calcSymmetries has ended
SearchEnded == pc \in {"checkFFTbox", "checkKmesh", "initAtomMaps", "initSymmIndex", "done", "dead"}

\* C19 as stated: for a cubic lattice with atoms at (0,0,0) and
\* (0.5,0.5,0.5), the center search finds a point admitting strictly more
\* symmetries than the origin and reports it as an improvement.
C19_MidpointImproves ==
  (mode = "Automatic" /\ shouldMoveAtoms /\ IsSimpleCubic(R)
      /\ TwoAtomsOriginAndBodyCenter /\ SearchEnded)
    => (fatal = "betterCenter" /\ Len(sym) > origSymSize)

\* C19 amended: for a cubic lattice with atoms at (0,0,0) and
\* (0.5,0.5,0.5), the origin already admits all 48 lattice symmetries, no
\* candidate admits more, and the search reports no improvement: setup goes
\* on with the 48 matrices found at the zero offset.
C19_OriginAlreadyBest ==
  (mode = "Automatic" /\ shouldMoveAtoms /\ IsSimpleCubic(R) /\ TwoAtomsOriginAndBodyCenter)
    => /\ fatal # "betterCenter"
       /\ rCenter = zero3
       /\ pc \in {"sortSymmetries", "centerSearch", "checkFFTbox"} =>
            (Len(sym) = 48 /\ Len(symLattice) = 48)

C19_Witness ==
  /\ mode = "Automatic" /\ shouldMoveAtoms /\ IsSimpleCubic(R) /\ TwoAtomsOriginAndBodyCenter
  /\ pc = "checkFFTbox" /\ origSymSize = 48 /\ Len(sym) = 48
  /\ \E i \in 1..Len(rCenterCandidates) :
       rCenterCandidates[i] = <<PosDen \div 4, PosDen \div 4, PosDen \div 4>>

\* a single atom, at (0.1,0,0)
SingleAtomOffAxis ==
  /\ Cardinality(AllAtoms) = 1
  /\ \A sa \in AllAtoms : species[sa[1]].atpos[sa[2]] = <<PosDen \div 10, 0, 0>>

\* m maps the vector (1,0,0) onto itself
FixesFirstAxis(m) == m[1][1] = 1 /\ m[2][1] = 0 /\ m[3][1] = 0

\* C20 as stated: for a cubic lattice with a single atom at (0.1,0,0) and
\* zero offset, basisReduce returns the subgroup fixing that point, which has
\* 4 operations.
C20_FourOperations ==
  (mode = "Automatic" /\ IsSimpleCubic(R) /\ SingleAtomOffAxis /\ pc = "sortSymmetries")
    => /\ Len(sym) = 4
       /\ \A k \in 1..Len(symLattice) :
            FixesFirstAxis(symLattice[k]) <=> \E j \in 1..Len(sym) : sym[j] = symLattice[k]

\* C20 amended: for a cubic lattice with a single atom at (0.1,0,0) and zero
\* offset, basisReduce returns the subgroup fixing that point, which has 8
\* operations (the matrices that keep the first axis and permute the other
\* two with any signs).
C20_EightOperations ==
  (mode = "Automatic" /\ IsSimpleCubic(R) /\ SingleAtomOffAxis /\ pc = "sortSymmetries")
    => /\ Len(sym) = 8
       /\ Cardinality({sym[j] : j \in 1..Len(sym)}) = 8
       /\ \A k \in 1..Len(symLattice) :
            FixesFirstAxis(symLattice[k]) <=> \E j \in 1..Len(sym) : sym[j] = symLattice[k]

C20_Witness ==
  /\ mode = "Automatic" /\ IsSimpleCubic(R) /\ SingleAtomOffAxis /\ pc = "sortSymmetries"
  /\ Len(sym) = 8 /\ Len(symLattice) = 48
  /\ \E j \in 1..Len(sym) : sym[j] # identity /\ sym[j][2][3] # 0

\* ------------------------------------------------------------------------
\* Properties of the modes none and manual, and of fatal errors
\* ------------------------------------------------------------------------
\* C21: in mode none, for every lattice, grid, atomic configuration and
\* k-mesh, setup completes without a fatal error and without a k-mesh
\* warning; the resulting list is exactly <<identity>> (matrices stored
\* before are discarded) and the list of mesh matrices is <<identity>> too.
C21_NoneModeTrivialGroup ==
  mode = "None" =>
    /\ pc # "dead" /\ fatal = "" /\ ~kmeshWarning
    /\ pc # "done" => ENABLED Next
    /\ pc # "setup" => sym = <<identity>>
    /\ pc \in {"checkKmesh", "initAtomMaps", "initSymmIndex", "done"} => symMesh = <<identity>>
    /\ atomMap = <<>> /\ symmIndex = <<>>

C21_Witness ==
  /\ mode = "None" /\ pc = "done" /\ sym = <<identity>> /\ symMesh = <<identity>>
  /\ R = Rskew /\ S = <<2, 3, 2>> /\ Len(qnums) = 2 /\ Cardinality(AllAtoms) = 2

\* the number of entries of syms equal to m
CountOf(syms, m) == Cardinality({k \in 1..Len(syms) : syms[k] = m})

\* after holds the matrices of before, none added and none removed, and
\* differs from it at most by one exchange that puts the identity first
ReorderedForIdentity(before, after) ==
  /\ Len(after) = Len(before)
  /\ \A k \in 1..Len(before) : CountOf(after, before[k]) = CountOf(before, before[k])
  /\ LET moved == {k \in 1..Len(before) : after[k] # before[k]}
     IN  /\ Cardinality(moved) <= 2
         /\ moved # {} => after[1] = identity
  /\ (\E k \in 1..Len(before) : before[k] = identity) => after[1] = identity

\* C22: in manual mode setup ends with a fatal error when no matrices were
\* given, and with a fatal error when some given matrix maps some atom to a
\* position with no atom of the same species within tolerance; otherwise the
\* given matrices are kept as the group, reordered only to bring the identity
\* to the front, and no matrix is added or removed (then or later in setup).
C22_ManualValidation ==
  /\ [][ (pc = "setup" /\ mode = "Manual") =>
           IF Len(sym) = 0
           THEN pc' = "dead" /\ fatal' = "noManualMatrices"
           ELSE IF \E k \in 1..Len(sym) : ~KeepsAtoms(sym[k], zero3)
           THEN pc' = "dead" /\ fatal' = "symmetriesDisagree"
           ELSE pc' = "checkFFTbox" /\ fatal' = "" /\ ReorderedForIdentity(sym, sym') ]_vars
  /\ [][ (mode = "Manual" /\ pc # "setup") => sym' = sym ]_vars

C22_Witness ==
  /\ mode = "Manual" /\ pc = "done" /\ fatal = ""
  /\ sym = <<identity, mirrorX>>

FatalMessages == {"noManualMatrices", "symmetriesDisagree", "betterCenter", "fftBox", "moveScale"}

\* C23: a fatal configuration error raised at any step (manual-mode
\* validation, grid commensurability, scale-factor check of the atom map)
\* ends the run at that step: no later step of setup runs and there is no
\* retry or recovery, so after a failing checkFFTbox the k-mesh check, the
\* atom map and the index table are never reached.
C23_FatalAborts ==
  /\ [](fatal # "" <=> pc = "dead")
  /\ [](fatal \in FatalMessages \cup {""})
  /\ [][ fatal' # fatal => (fatal = "" /\ pc' = "dead") ]_vars
  /\ [][ pc = "dead" => FALSE ]_vars
  /\ [](fatal \in {"noManualMatrices", "symmetriesDisagree"} =>
          symMesh = <<>> /\ ~kmeshWarning /\ atomMap = <<>> /\ symmIndex = <<>>)
  /\ [](fatal = "fftBox" => ~kmeshWarning /\ atomMap = <<>> /\ symmIndex = <<>>)
  /\ [](fatal = "moveScale" => symmIndex = <<>>)
  /\ [][ (pc = "checkFFTbox" /\ \E k \in 1..Len(sym) : ~Divides(sym[k]))
           => (pc' = "dead" /\ fatal' = "fftBox") ]_vars

C23_Witness ==
  /\ pc = "dead" /\ fatal = "fftBox" /\ mode = "Manual"
  /\ ~kmeshWarning /\ atomMap = <<>> /\ symmIndex = <<>>
  /\ ~ENABLED Next

\* ------------------------------------------------------------------------
\* Determinism of setup
\* ------------------------------------------------------------------------
SecondRunReturned == firstRun # <<>> /\ firstRun.done /\ pc = "done"

RECURSIVE IsqrtIn(_, _, _)
IsqrtIn(n, lo, hi) ==
  IF hi - lo <= 1 THEN lo
  ELSE LET mid == (lo + hi) \div 2
       IN  IF mid * mid <= n THEN IsqrtIn(n, mid, hi) ELSE IsqrtIn(n, lo, mid)

Isqrt(n) == IsqrtIn(n, 0, 46341)

\* sqrt(a) < sqrt(b) - MIN_SYMM_TOL for certain, a and b below 2^30:
\* equivalent to InvSymmTol*(b-a) > sqrt(a)+sqrt(b), and sqrt(a)+sqrt(b) is
\* below Isqrt(a)+Isqrt(b)+2 and below 65536
SurelyDropsByTol(a, b) ==
  b - a >= 7 \/ (b - a >= 1 /\ InvSymmTol * (b - a) >= Isqrt(a) + Isqrt(b) + 2)

\* sqrt(a) < sqrt(b) - MIN_SYMM_TOL is not excluded: sqrt(a)+sqrt(b) is at
\* least Isqrt(a)+Isqrt(b)
PossiblyDropsByTol(a, b) ==
  b - a >= 7 \/ (b - a >= 1 /\ InvSymmTol * (b - a) > Isqrt(a) + Isqrt(b))

\* the matrix that adds i times direction k2 and j times direction k3 to
\* direction k1 (k1 in 1..3, k2 and k3 the next two directions cyclically)
AddToDirection(k1, i, j) ==
  [r \in Idx |-> [c \in Idx |->
     IF r = c THEN 1
     ELSE IF c = k1 /\ r = (k1 % 3) + 1 THEN i
     ELSE IF c = k1 /\ r = ((k1 + 1) % 3) + 1 THEN j
     ELSE 0]]

SingleSteps == {AddToDirection(k1, i, j) : k1 \in Idx, i \in {-1, 0, 1}, j \in {-1, 0, 1}}

\* no single step lowers the norm of basis B by more than the tolerance
NoStepLowersNorm(B) ==
  \A d \in SingleSteps : ~PossiblyDropsByTol(nrm2sq(MatMul(B, d)), nrm2sq(B))

\* C25: the basis-reduction loop of latticeSymmetries terminates for every
\* lattice; each accepted step lowers the norm of the working basis by more
\* than MIN_SYMM_TOL; the loop exits after the first full sweep of 3 x 9
\* tries in which no step is accepted, and then no single step lowers the
\* norm by more than the tolerance.
C25_ReductionTerminates ==
  /\ <>(lpc = "returned")
  /\ [][ (lpc = "reduce" /\ Rreduced' # Rreduced) =>
           /\ SurelyDropsByTol(nrm2sq(Rreduced'), nrm2sq(Rreduced))
           /\ changed' /\ nTry' = nTry + 1 ]_vars
  /\ [][ (lpc = "reduce" /\ nTry = 27) =>
           IF changed THEN lpc' = "reduce" /\ nTry' = 0 /\ ~changed'
           ELSE lpc' = "search" ]_vars
  /\ [][ (lpc = "reduce" /\ lpc' # "reduce") =>
           /\ nTry = 27 /\ ~changed
           /\ Rreduced' = Rreduced
           /\ NoStepLowersNorm(Rreduced) ]_vars

C25_Witness ==
  /\ lpc = "returned" /\ R = Rfar
  /\ Rreduced = matrix3(2, 2, 2) /\ transmission # identity

\* the matrices with entries in {-1,0,1} that leave the metric G unchanged
PreservingMatrices(G) ==
  {AllCandidates[n] : n \in {k \in 1..Len(AllCandidates) :
      MatMul(Transpose(AllCandidates[k]), MatMul(G, AllCandidates[k])) = G}}

\* C26: latticeSymmetries returns exactly the matrices with entries in
\* {-1,0,1} that preserve the reduced metric, each conjugated as T*m*T^-1
\* with the cumulative transmission matrix T whenever the reduction changed
\* the lattice (T is not the identity), and unconjugated only when no
\* reduction step was taken.
C26_ConjugatedIffReduced ==
  lpc = "returned" =>
    LET G        == MatMul(Transpose(Rreduced), Rreduced)
        returned == {symLattice[k] : k \in 1..Len(symLattice)}
    IN  /\ Cardinality(returned) = Len(symLattice)
        /\ returned = IF transmission # identity
                      THEN {MatMul(MatMul(transmission, m), invTransmission) :
                              m \in PreservingMatrices(G)}
                      ELSE PreservingMatrices(G)

Det(A) ==
    A[1][1] * (A[2][2] * A[3][3] - A[2][3] * A[3][2])
  - A[1][2] * (A[2][1] * A[3][3] - A[2][3] * A[3][1])
  + A[1][3] * (A[2][1] * A[3][2] - A[2][2] * A[3][1])

\* C28: throughout the basis-reduction loop transmission * invTransmission
\* is the identity and the working basis equals R * transmission, so that
\* transmission is unimodular and every conjugated matrix T*m*T^-1 is an
\* integer matrix.
C28_TransmissionUnimodular ==
  /\ [](lpc # "idle" =>
          /\ MatMul(transmission, invTransmission) = identity
          /\ MatMul(invTransmission, transmission) = identity
          /\ Rreduced = MatMul(R, transmission)
          /\ Det(transmission) \in {1, -1})
  /\ [][ (lpc = "conjugate" /\ symLattice' # symLattice) =>
           /\ Len(symLattice') = Len(symLattice)
           /\ \A k \in 1..Len(symLattice) :
                /\ MatMul(symLattice'[k], transmission) = MatMul(transmission, symLattice[k])
                /\ \A i \in Idx : \A j \in Idx : symLattice'[k][i][j] \in Int ]_vars

C28_Witness ==
  /\ lpc = "reduce" /\ nTry > 0 /\ changed
  /\ transmission[1][3] # 0 /\ transmission[3][2] # 0
  /\ MatMul(transmission, invTransmission) = identity

\* ------------------------------------------------------------------------
\* Properties of the index table and of the final list
\* ------------------------------------------------------------------------
\* the grid points that start a class: those not among the images recorded
\* by the classes before them, in increasing order of flat index
RECURSIVE RepresentativesFrom(_, _, _)
RepresentativesFrom(n, seen, acc) ==
  IF n >= S[1] * S[2] * S[3] THEN acc
  ELSE IF n \in seen THEN RepresentativesFrom(n + 1, seen, acc)
  ELSE RepresentativesFrom(n + 1,
         seen \cup {WrappedImage(symMesh[k], n) : k \in 1..Len(symMesh)},
         Append(acc, n))

Representatives == RepresentativesFrom(0, {}, <<>>)

\* C27: after initSymmIndex with more than one symmetry, the index table
\* has (number of classes) x (number of symmetries) entries, every entry is
\* a flat grid index in [0, nr), the first entry of each class is its
\* representative point itself, and every grid point is in some class.
C27_IndexTableShape ==
  (pc = "done" /\ Len(sym) > 1) =>
    LET nRot == Len(sym)
        reps == Representatives
    IN  /\ Len(symmIndex) = Len(reps) * nRot
        /\ \A n \in 1..Len(symmIndex) : symmIndex[n] \in GridIndices
        /\ \A c \in 1..Len(reps) : symmIndex[nRot * (c - 1) + 1] = reps[c]
        /\ \A p \in GridIndices : \E n \in 1..Len(symmIndex) : symmIndex[n] = p

\* the final list of setup is in sym
PastCalcSymmetries ==
  pc \in {"checkFFTbox", "checkKmesh", "initAtomMaps", "initSymmIndex", "done"}

\* closed under multiplication and inverse
IsGroup(syms) ==
  LET G == {syms[k] : k \in 1..Len(syms)}
  IN  \A a \in G : Inverse(a) \in G /\ \A b \in G : MatMul(a, b) \in G

\* calcSymmetries hands a group to the later steps, which keep the list
FinalListIsGroup ==
  /\ [][(mode = "Automatic" /\ pc # "checkFFTbox" /\ pc' = "checkFFTbox") => IsGroup(sym')]_vars
  /\ [][(PastCalcSymmetries /\ pc' # "dead") => (PastCalcSymmetries' /\ sym' = sym)]_vars
  /\ [](PastCalcSymmetries => Len(sym) >= 1)

\* for matrix k the atom map of species s is a permutation of its atoms
MapIsPermutation(s, k) ==
  {atomMap[s][a][k] : a \in AtomsOf(s)} = 0..(Len(species[s].atpos) - 1)

\* no two atoms of one species lie within MIN_SYMM_TOL of each other
AtomsApart ==
  \A s \in 1..Len(species) : \A a \in AtomsOf(s) : \A b \in AtomsOf(s) :
    a # b => ~SymmClose(species[s].atpos[a], species[s].atpos[b])

EqualModLattice(a, b) == \A i \in Idx : (a[i] - b[i]) % PosDen = 0

\* C30: kpointsEquivalent(k1,k2) returns false for every pair, k1 = k2
\* included, when the mode is none; in the other modes after setup it returns
\* true exactly when some matrix m of the list has transpose(m)*k1 equal to
\* k2 up to integer shifts, so kpointsEquivalent(k,k) is true for every k;
\* and it never modifies the symmetry state.
C30_KpointsEquivalent ==
  /\ []((kq # <<>> /\ mode = "None") => ~kq.result)
  /\ []((kq # <<>> /\ mode # "None") =>
          (kq.result <=> \E j \in 1..Len(sym) :
                           EqualModLattice(MatVec(Transpose(sym[j]), kq.k1), kq.k2)))
  /\ []((kq # <<>> /\ mode # "None" /\ kq.k1 = kq.k2) => kq.result)
  /\ [][kq' # kq => UNCHANGED <<setupVars, symmVars>>]_vars

\* C30 on lists that hold the identity: all of the above
C30_KpointsEquivalentWithIdentity ==
  (\E j \in 1..Len(sym) : sym[j] = identity) => 
    /\ (kq # <<>> /\ mode = "None") => ~kq.result
    /\ (kq # <<>> /\ mode # "None") =>
          (kq.result <=> \E j \in 1..Len(sym) :
                           EqualModLattice(MatVec(Transpose(sym[j]), kq.k1), kq.k2))
    /\ (kq # <<>> /\ mode # "None" /\ kq.k1 = kq.k2) => kq.result

=============================================================================
